---------------------------- MODULE Spec2Model ----------------------------
(***************************************************************************)
(* Tree-conflict resolution engine of libsvn_client (conflicts.c).         *)
(*                                                                         *)
(* The model follows one svn_client_conflict_t object and the working-copy *)
(* node it was opened on.  Every public entry point is one action that     *)
(* runs the whole handler; what the handler did (the working-copy calls it   *)
(* made, in order, and the error it returned) is kept in `last`.           *)
(*                                                                         *)
(* Two parts of the engine that work on data of the repository alone have  *)
(* specifications of their own: the walk of the revision log that looks    *)
(* for a deletion and collects moves, with the description of a chain of   *)
(* moves (SpecScan, SpecScanFair), and the list of revisions in the        *)
(* description of an incoming edit (SpecDescribe).                         *)
(***************************************************************************)
EXTENDS Integers, Sequences, FiniteSets, TLC

VARIABLES
  desc,      \* the legacy conflict descriptor read from the working copy
  conflict,  \* the svn_client_conflict_t object
  wc,        \* the working-copy node (and its locks) the conflict lives on
  last,      \* the last API call: its arguments, the calls it made, its result
  budget,    \* number of resolver runs and fetches the caller may still make
  scan,      \* a walk of the revision log looking for a deletion
  listing    \* a list of revisions being described

vars == <<desc, conflict, wc, last, budget, scan, listing>>

-----------------------------------------------------------------------------
(* Bounds of the model.                                                    *)

\* Resolver runs, detail fetches and re-opens per behaviour.
MaxCalls == 2

-----------------------------------------------------------------------------
(* Enumerations.                                                           *)

\* SVN_INVALID_REVNUM
SVN_INVALID_REVNUM == -1

Operations == {"none", "update", "switch", "merge"}
IncomingActions == {"edit", "add", "delete", "replace"}
LocalReasons == {"edited", "obstructed", "deleted", "missing", "unversioned",
                 "added", "replaced", "moved_away", "moved_here"}
NodeKinds == {"none", "file", "dir"}

PropNames == {"p1", "p2"}
Relpaths == {"p", "q"}

\* svn_client_conflict_option_id_t
OptionIds ==
  {"undefined", "unspecified", "postpone", "base_text", "incoming_text",
   "working_text", "incoming_text_where_conflicted",
   "working_text_where_conflicted", "merged_text",
   "accept_current_wc_state", "update_move_destination",
   "update_any_moved_away_children", "merge_incoming_add_ignore",
   "merge_incoming_added_file_text_merge",
   "merge_incoming_added_file_replace",
   "merge_incoming_added_file_replace_and_merge",
   "merge_incoming_added_dir_merge", "merge_incoming_added_dir_replace",
   "merge_incoming_added_dir_replace_and_merge",
   "incoming_delete_ignore", "incoming_delete_accept"}

\* An option as the registry builds it: its id and its do_resolve_func.
Option(id, func) == [id |-> id, do_resolve_func |-> func]

SeqToSet(s) == {s[i] : i \in 1..Len(s)}
Ids(options) == [i \in 1..Len(options) |-> options[i].id]

-----------------------------------------------------------------------------
(* Getters of the conflict object.                                         *)

svn_client_conflict_get_conflicted(c) ==
  [text_conflicted |-> c.legacy_text_conflict,
   props_conflicted |-> c.prop_conflicts,
   tree_conflicted |-> c.legacy_tree_conflict]

svn_client_conflict_get_operation(d) == d.operation
svn_client_conflict_get_incoming_change(d) == d.action
svn_client_conflict_get_local_change(d) == d.reason
svn_client_conflict_tree_get_victim_node_kind(d) == d.node_kind
\* node kind of src_right_version
incoming_new_kind(d) == d.right_kind

assert_text_conflict(c) == svn_client_conflict_get_conflicted(c).text_conflicted
assert_prop_conflict(c) ==
  svn_client_conflict_get_conflicted(c).props_conflicted # {}
assert_tree_conflict(c) == svn_client_conflict_get_conflicted(c).tree_conflicted

-----------------------------------------------------------------------------
(* Option registry.                                                        *)

text_conflict_options ==
  << Option("postpone", "resolve_postpone"),
     Option("base_text", "resolve_text_conflict"),
     Option("incoming_text", "resolve_text_conflict"),
     Option("working_text", "resolve_text_conflict"),
     Option("incoming_text_where_conflicted", "resolve_text_conflict"),
     Option("working_text_where_conflicted", "resolve_text_conflict"),
     Option("merged_text", "resolve_text_conflict") >>

binary_conflict_options ==
  << Option("postpone", "resolve_postpone"),
     Option("incoming_text", "resolve_text_conflict"),
     Option("working_text", "resolve_text_conflict"),
     Option("merged_text", "resolve_text_conflict") >>

prop_conflict_options ==
  << Option("postpone", "resolve_postpone"),
     Option("base_text", "resolve_prop_conflict"),
     Option("incoming_text", "resolve_prop_conflict"),
     Option("working_text", "resolve_prop_conflict"),
     Option("incoming_text_where_conflicted", "resolve_prop_conflict"),
     Option("working_text_where_conflicted", "resolve_prop_conflict"),
     Option("merged_text", "resolve_prop_conflict") >>

\* A registry that trims the text options by the "where_conflicted" pair only.
text_options_less_where_conflicted(d) ==
  IF d.mime_binary
  THEN << Option("postpone", "resolve_postpone"),
          Option("base_text", "resolve_text_conflict"),
          Option("incoming_text", "resolve_text_conflict"),
          Option("working_text", "resolve_text_conflict"),
          Option("merged_text", "resolve_text_conflict") >>
  ELSE text_conflict_options

\* mime_type && svn_mime_type_is_binary(mime_type)
svn_client_conflict_text_get_resolution_options(d) ==
  IF d.mime_binary THEN binary_conflict_options ELSE text_conflict_options

svn_client_conflict_prop_get_resolution_options(d) == prop_conflict_options

\* A configurator that binds accept_current_wc_state to the plain resolver
\* whatever the conflict.
configure_option_accept_plain(d) ==
  << Option("accept_current_wc_state", "resolve_accept_current_wc_state") >>

configure_option_accept_current_wc_state(d) ==
  IF /\ svn_client_conflict_get_operation(d) \in {"update", "switch"}
     /\ svn_client_conflict_get_local_change(d)
          \in {"moved_away", "deleted", "replaced"}
     /\ svn_client_conflict_get_incoming_change(d) = "edit"
  THEN << Option("accept_current_wc_state", "resolve_update_break_moved_away") >>
  ELSE << Option("accept_current_wc_state", "resolve_accept_current_wc_state") >>

configure_option_update_move_destination(d) ==
  IF /\ svn_client_conflict_get_operation(d) \in {"update", "switch"}
     /\ svn_client_conflict_get_incoming_change(d) = "edit"
     /\ svn_client_conflict_get_local_change(d) = "moved_away"
  THEN << Option("update_move_destination", "resolve_update_moved_away_node") >>
  ELSE << >>

\* A configurator that offers update_any_moved_away_children for victims of
\* any node kind.
configure_option_raise_any_kind(d) ==
  IF /\ svn_client_conflict_get_operation(d) \in {"update", "switch"}
     /\ svn_client_conflict_get_incoming_change(d) = "edit"
     /\ svn_client_conflict_get_local_change(d) \in {"deleted", "replaced"}
  THEN << Option("update_any_moved_away_children",
                 "resolve_update_raise_moved_away") >>
  ELSE << >>

configure_option_update_raise_moved_away_children(d) ==
  IF /\ svn_client_conflict_get_operation(d) \in {"update", "switch"}
     /\ svn_client_conflict_get_incoming_change(d) = "edit"
     /\ svn_client_conflict_get_local_change(d) \in {"deleted", "replaced"}
     /\ svn_client_conflict_tree_get_victim_node_kind(d) = "dir"
  THEN << Option("update_any_moved_away_children",
                 "resolve_update_raise_moved_away") >>
  ELSE << >>

configure_option_merge_incoming_add_ignore(d) ==
  IF /\ svn_client_conflict_get_operation(d) = "merge"
     /\ svn_client_conflict_get_incoming_change(d) = "add"
     /\ svn_client_conflict_get_local_change(d) = "obstructed"
  THEN << Option("merge_incoming_add_ignore",
                 "resolve_merge_incoming_add_ignore") >>
  ELSE << >>

\* The guard the six merge_incoming_added_{file,dir}_* configurators share,
\* KIND being svn_node_file or svn_node_dir.
merge_incoming_added_applies(d, kind) ==
  /\ svn_client_conflict_get_operation(d) = "merge"
  /\ svn_client_conflict_tree_get_victim_node_kind(d) = kind
  /\ incoming_new_kind(d) = kind
  /\ svn_client_conflict_get_incoming_change(d) = "add"
  /\ svn_client_conflict_get_local_change(d) = "obstructed"

configure_option_merge_incoming_added_file_text_merge(d) ==
  IF merge_incoming_added_applies(d, "file")
  THEN << Option("merge_incoming_added_file_text_merge",
                 "resolve_merge_incoming_added_file_text_merge") >>
  ELSE << >>

configure_option_merge_incoming_added_file_replace(d) ==
  IF merge_incoming_added_applies(d, "file")
  THEN << Option("merge_incoming_added_file_replace",
                 "resolve_merge_incoming_added_file_replace") >>
  ELSE << >>

configure_option_merge_incoming_added_file_replace_and_merge(d) ==
  IF merge_incoming_added_applies(d, "file")
  THEN << Option("merge_incoming_added_file_replace_and_merge",
                 "resolve_merge_incoming_added_file_replace_and_merge") >>
  ELSE << >>

configure_option_merge_incoming_added_dir_merge(d) ==
  IF merge_incoming_added_applies(d, "dir")
  THEN << Option("merge_incoming_added_dir_merge",
                 "resolve_merge_incoming_added_dir_merge") >>
  ELSE << >>

configure_option_merge_incoming_added_dir_replace(d) ==
  IF merge_incoming_added_applies(d, "dir")
  THEN << Option("merge_incoming_added_dir_replace",
                 "resolve_merge_incoming_added_dir_replace") >>
  ELSE << >>

configure_option_merge_incoming_added_dir_replace_and_merge(d) ==
  IF merge_incoming_added_applies(d, "dir")
  THEN << Option("merge_incoming_added_dir_replace_and_merge",
                 "resolve_merge_incoming_added_dir_replace_and_merge") >>
  ELSE << >>

configure_option_incoming_delete_ignore(d) ==
  IF svn_client_conflict_get_incoming_change(d) = "delete"
  THEN << Option("incoming_delete_ignore", "resolve_incoming_delete_ignore") >>
  ELSE << >>

configure_option_incoming_delete_accept(d) ==
  IF svn_client_conflict_get_incoming_change(d) = "delete"
  THEN << Option("incoming_delete_accept", "resolve_incoming_delete_accept") >>
  ELSE << >>

svn_client_conflict_tree_get_resolution_options(d) ==
  << Option("postpone", "resolve_postpone") >>
  \o configure_option_accept_current_wc_state(d)
  \o configure_option_update_move_destination(d)
  \o configure_option_update_raise_moved_away_children(d)
  \o configure_option_merge_incoming_add_ignore(d)
  \o configure_option_merge_incoming_added_file_text_merge(d)
  \o configure_option_merge_incoming_added_file_replace(d)
  \o configure_option_merge_incoming_added_file_replace_and_merge(d)
  \o configure_option_merge_incoming_added_dir_merge(d)
  \o configure_option_merge_incoming_added_dir_replace(d)
  \o configure_option_merge_incoming_added_dir_replace_and_merge(d)
  \o configure_option_incoming_delete_ignore(d)
  \o configure_option_incoming_delete_accept(d)

\* The first option of OPTIONS whose id is OPTION_ID; Len + 1 when none is.
find_index(options, option_id) ==
  IF \E i \in 1..Len(options) : options[i].id = option_id
  THEN CHOOSE i \in 1..Len(options) :
         /\ options[i].id = option_id
         /\ \A j \in 1..(i - 1) : options[j].id # option_id
  ELSE Len(options) + 1

NoOption == Option("undefined", "NULL")

\* A lookup that falls back to the first option when OPTION_ID is not found.
option_find_or_first(options, option_id) ==
  IF find_index(options, option_id) <= Len(options)
  THEN options[find_index(options, option_id)]
  ELSE options[1]

svn_client_conflict_option_find_by_id(options, option_id) ==
  IF find_index(options, option_id) <= Len(options)
  THEN options[find_index(options, option_id)]
  ELSE NoOption

\* A rewriting that maps working_text_where_conflicted whatever the operation.
tree_resolve_by_id_fixup_any_operation(d, option_id) ==
  IF option_id = "working_text_where_conflicted"
  THEN IF svn_client_conflict_get_local_change(d) = "moved_away"
       THEN "update_move_destination"
       ELSE IF /\ svn_client_conflict_get_local_change(d)
                    \in {"deleted", "replaced"}
               /\ svn_client_conflict_get_incoming_change(d) = "edit"
               /\ svn_client_conflict_tree_get_victim_node_kind(d) = "dir"
            THEN "update_any_moved_away_children"
            ELSE option_id
  ELSE IF option_id = "merged_text"
       THEN "accept_current_wc_state"
       ELSE option_id

\* The backwards-compatibility rewriting at the head of
\* svn_client_conflict_tree_resolve_by_id.
tree_resolve_by_id_fixup(d, option_id) ==
  IF option_id = "working_text_where_conflicted"
  THEN IF svn_client_conflict_get_operation(d) \in {"update", "switch"}
       THEN IF svn_client_conflict_get_local_change(d) = "moved_away"
            THEN "update_move_destination"
            ELSE IF /\ svn_client_conflict_get_local_change(d)
                         \in {"deleted", "replaced"}
                    /\ svn_client_conflict_get_incoming_change(d) = "edit"
                    /\ svn_client_conflict_tree_get_victim_node_kind(d) = "dir"
                 THEN "update_any_moved_away_children"
                 ELSE option_id
       ELSE option_id
  ELSE IF option_id = "merged_text"
       THEN "accept_current_wc_state"
       ELSE option_id

-----------------------------------------------------------------------------
(* Errors.  An svn_error_t chain is the sequence of its error codes; the   *)
(* code of a failed library call is the name of the call.                  *)

SVN_NO_ERROR == << >>

svn_error_compose_create(err1, err2) == err1 \o err2

-----------------------------------------------------------------------------
(* Working-copy library (libsvn_wc).  A handler's progress is a record of  *)
(* the working copy, the calls made so far and the pending error.  `env`    *)
(* is what the environment does to this run: the call that fails (if any)  *)
(* and whether releasing the lock fails.                                   *)

Start(w) == [wc |-> w, ev |-> << >>, err |-> SVN_NO_ERROR]

\* One library call NAME(ARG): on success the working copy becomes EFF, on
\* failure nothing changes and the call's error is composed after S.err.
Step(s, name, arg, env, eff) ==
  LET ok == env.fail # name IN
  [wc |-> IF ok THEN eff ELSE s.wc,
   ev |-> Append(s.ev, <<name, arg, ok>>),
   err |-> IF ok THEN s.err ELSE svn_error_compose_create(s.err, <<name>>)]

\* ctx->notify_func2(...)
Notify(s, action) == [s EXCEPT !.ev = Append(@, <<"notify", action, TRUE>>)]

svn_wc__acquire_write_lock_for_resolve(s, path, env) ==
  Step(s, "acquire_write_lock_for_resolve", path, env,
       [s.wc EXCEPT !.locks = @ \cup {path}])

svn_wc__acquire_write_lock(s, path, env) ==
  Step(s, "acquire_write_lock", path, env,
       [s.wc EXCEPT !.locks = @ \cup {path}])

svn_wc__release_write_lock(s, path, env) ==
  LET ok == ~env.rel IN
  [wc |-> IF ok THEN [s.wc EXCEPT !.locks = @ \ {path}] ELSE s.wc,
   ev |-> Append(s.ev, <<"release_write_lock", path, ok>>),
   err |-> IF ok THEN s.err
           ELSE svn_error_compose_create(s.err, <<"release_write_lock">>)]

svn_wc__del_tree_conflict(s, env) ==
  Step(s, "del_tree_conflict", "local", env,
       [s.wc EXCEPT !.tree_conflict = FALSE])

\* The text a legacy conflict choice leaves in the file.
ChosenText(content, choice) ==
  CASE choice = "base" -> <<"B">>
    [] choice = "theirs_full" -> <<"I">>
    [] choice = "mine_full" -> <<"W">>
    [] choice = "theirs_conflict" -> <<"I", "W">>
    [] choice = "mine_conflict" -> <<"W", "I">>
    [] OTHER -> content

svn_wc__conflict_text_mark_resolved(s, choice, env) ==
  Step(s, "conflict_text_mark_resolved", choice, env,
       [s.wc EXCEPT !.text_conflict = FALSE,
                    !.content = ChosenText(@, choice)])

svn_wc__conflict_prop_mark_resolved(s, propname, choice, env) ==
  Step(s, "conflict_prop_mark_resolved", <<propname, choice>>, env,
       [s.wc EXCEPT !.prop_conflicts =
                      IF propname = "" THEN {} ELSE @ \ {propname}])

svn_wc__conflict_tree_update_break_moved_away(s, env) ==
  Step(s, "conflict_tree_update_break_moved_away", "local", env,
       [s.wc EXCEPT !.tree_conflict = FALSE, !.moved = "broken"])

svn_wc__conflict_tree_update_raise_moved_away(s, env) ==
  Step(s, "conflict_tree_update_raise_moved_away", "local", env,
       [s.wc EXCEPT !.tree_conflict = FALSE, !.moved = "raised"])

svn_wc__conflict_tree_update_moved_away_node(s, env) ==
  Step(s, "conflict_tree_update_moved_away_node", "local", env,
       [s.wc EXCEPT !.tree_conflict = FALSE, !.moved = "updated"])

-----------------------------------------------------------------------------
(* Resolvers (conflict_option_resolve_func_t).  Each returns the conflict  *)
(* object, the working copy, the calls made and the error.                  *)

Return(c, s) == [c |-> c, wc |-> s.wc, ev |-> s.ev, err |-> s.err]

conflict_option_id_to_wc_conflict_choice(option_id) ==
  CASE option_id = "undefined" -> "undefined"
    [] option_id = "postpone" -> "postpone"
    [] option_id = "base_text" -> "base"
    [] option_id = "incoming_text" -> "theirs_full"
    [] option_id = "working_text" -> "mine_full"
    [] option_id = "incoming_text_where_conflicted" -> "theirs_conflict"
    [] option_id = "working_text_where_conflicted" -> "mine_conflict"
    [] option_id = "merged_text" -> "merged"
    [] option_id = "unspecified" -> "unspecified"
    [] OTHER -> "undefined"

\* A postpone that records itself as the resolution of the conflict.
resolve_postpone_recording(option, c, w, env) ==
  Return([c EXCEPT !.resolution_text = option.id,
                   !.resolution_tree = option.id], Start(w))

resolve_postpone(option, c, w, env) == Return(c, Start(w))

\* resolve_text_conflict marking the conflict resolved only after it gave
\* the lock back.
resolve_text_conflict_unlocked(option, c, w, env) ==
  LET choice == conflict_option_id_to_wc_conflict_choice(option.id)
      s1 == svn_wc__acquire_write_lock_for_resolve(Start(w), "local", env)
      s2 == svn_wc__release_write_lock(s1, "local", env)
      s3 == svn_wc__conflict_text_mark_resolved(s2, choice, env)
  IN IF s1.err # SVN_NO_ERROR THEN Return(c, s1)
     ELSE IF s3.err # SVN_NO_ERROR THEN Return(c, s3)
     ELSE Return([c EXCEPT !.resolution_text = option.id], s3)

\* resolve_text_conflict recording the resolution before it looks at the
\* error of marking the conflict resolved and releasing the lock.
resolve_text_conflict_recording_early(option, c, w, env) ==
  LET choice == conflict_option_id_to_wc_conflict_choice(option.id)
      s1 == svn_wc__acquire_write_lock_for_resolve(Start(w), "local", env)
      s2 == svn_wc__conflict_text_mark_resolved(s1, choice, env)
      s3 == svn_wc__release_write_lock(s2, "local", env)
  IN IF s1.err # SVN_NO_ERROR THEN Return(c, s1)
     ELSE Return([c EXCEPT !.resolution_text = option.id], s3)

resolve_text_conflict(option, c, w, env) ==
  LET choice == conflict_option_id_to_wc_conflict_choice(option.id)
      s1 == svn_wc__acquire_write_lock_for_resolve(Start(w), "local", env)
      s2 == svn_wc__conflict_text_mark_resolved(s1, choice, env)
      s3 == svn_wc__release_write_lock(s2, "local", env)
  IN IF s1.err # SVN_NO_ERROR THEN Return(c, s1)
     ELSE IF s3.err # SVN_NO_ERROR THEN Return(c, s3)
     ELSE Return([c EXCEPT !.resolution_text = option.id], s3)

\* Any remaining key of the prop_conflicts hash (apr_hash_first).
FirstKey(props) == IF props = {} THEN "NULL" ELSE CHOOSE p \in props : TRUE

\* resolve_prop_conflict binding every property name to the option when
\* asked for all properties, whether the name has a conflict or not.
resolve_prop_conflict_of_all_names(option, c, w, env) ==
  LET propname == option.propname
      choice == conflict_option_id_to_wc_conflict_choice(option.id)
      s1 == svn_wc__acquire_write_lock_for_resolve(Start(w), "local", env)
      s2 == svn_wc__conflict_prop_mark_resolved(s1, propname, choice, env)
      s3 == svn_wc__release_write_lock(s2, "local", env)
  IN IF s1.err # SVN_NO_ERROR THEN Return(c, s1)
     ELSE IF s3.err # SVN_NO_ERROR THEN Return(c, s3)
     ELSE IF propname = ""
     THEN Return([c EXCEPT
                    !.resolved_props = [p \in PropNames |-> option.id],
                    !.prop_conflicts = {},
                    !.legacy_prop_conflict_propname = "NULL"], s3)
     ELSE Return([c EXCEPT
                    !.resolved_props = [@ EXCEPT ![propname] = option.id],
                    !.prop_conflicts = @ \ {propname},
                    !.legacy_prop_conflict_propname =
                       FirstKey(c.prop_conflicts \ {propname})], s3)

resolve_prop_conflict(option, c, w, env) ==
  LET propname == option.propname
      choice == conflict_option_id_to_wc_conflict_choice(option.id)
      s1 == svn_wc__acquire_write_lock_for_resolve(Start(w), "local", env)
      s2 == svn_wc__conflict_prop_mark_resolved(s1, propname, choice, env)
      s3 == svn_wc__release_write_lock(s2, "local", env)
  IN IF s1.err # SVN_NO_ERROR THEN Return(c, s1)
     ELSE IF s3.err # SVN_NO_ERROR THEN Return(c, s3)
     ELSE IF propname = ""
     THEN Return([c EXCEPT
                    !.resolved_props =
                       [p \in PropNames |->
                          IF p \in c.prop_conflicts THEN option.id ELSE @[p]],
                    !.prop_conflicts = {},
                    !.legacy_prop_conflict_propname = "NULL"], s3)
     ELSE Return([c EXCEPT
                    !.resolved_props = [@ EXCEPT ![propname] = option.id],
                    !.prop_conflicts = @ \ {propname},
                    !.legacy_prop_conflict_propname =
                       FirstKey(c.prop_conflicts \ {propname})], s3)

\* An accept_current_wc_state that returns the error of
\* svn_wc__del_tree_conflict at once, as SVN_ERR() would.
resolve_accept_returning_early(option, c, w, env) ==
  LET s1 == svn_wc__acquire_write_lock_for_resolve(Start(w), "local", env)
      s2 == svn_wc__del_tree_conflict(s1, env)
      s3 == Notify(s2, "resolved_tree")
      s4 == svn_wc__release_write_lock(s3, "local", env)
  IN IF s1.err # SVN_NO_ERROR THEN Return(c, s1)
     ELSE IF s2.err # SVN_NO_ERROR THEN Return(c, s2)
     ELSE IF s4.err # SVN_NO_ERROR THEN Return(c, s4)
     ELSE Return([c EXCEPT !.resolution_tree = option.id], s4)

resolve_accept_current_wc_state(option, c, w, env) ==
  LET s1 == svn_wc__acquire_write_lock_for_resolve(Start(w), "local", env)
      s2 == svn_wc__del_tree_conflict(s1, env)
      s3 == Notify(s2, "resolved_tree")
      s4 == svn_wc__release_write_lock(s3, "local", env)
  IN IF option.id # "accept_current_wc_state"
     THEN Return(c, [Start(w) EXCEPT
                       !.err = <<"WC_CONFLICT_RESOLVER_FAILURE">>])
     ELSE IF s1.err # SVN_NO_ERROR THEN Return(c, s1)
     ELSE IF s4.err # SVN_NO_ERROR THEN Return(c, s4)
     ELSE Return([c EXCEPT !.resolution_tree = option.id], s4)

resolve_update_break_moved_away(option, c, w, env) ==
  LET s1 == svn_wc__acquire_write_lock_for_resolve(Start(w), "local", env)
      s2 == svn_wc__conflict_tree_update_break_moved_away(s1, env)
      s3 == svn_wc__release_write_lock(s2, "local", env)
  IN IF s1.err # SVN_NO_ERROR THEN Return(c, s1)
     ELSE IF s3.err # SVN_NO_ERROR THEN Return(c, s3)
     ELSE Return([c EXCEPT !.resolution_tree = option.id], s3)

resolve_update_raise_moved_away(option, c, w, env) ==
  LET s1 == svn_wc__acquire_write_lock_for_resolve(Start(w), "local", env)
      s2 == svn_wc__conflict_tree_update_raise_moved_away(s1, env)
      s3 == svn_wc__release_write_lock(s2, "local", env)
  IN IF s1.err # SVN_NO_ERROR THEN Return(c, s1)
     ELSE IF s3.err # SVN_NO_ERROR THEN Return(c, s3)
     ELSE Return([c EXCEPT !.resolution_tree = option.id], s3)

resolve_update_moved_away_node(option, c, w, env) ==
  LET s1 == svn_wc__acquire_write_lock_for_resolve(Start(w), "local", env)
      s2 == svn_wc__conflict_tree_update_moved_away_node(s1, env)
      s3 == svn_wc__release_write_lock(s2, "local", env)
  IN IF s1.err # SVN_NO_ERROR THEN Return(c, s1)
     ELSE IF s3.err # SVN_NO_ERROR THEN Return(c, s3)
     ELSE Return([c EXCEPT !.resolution_tree = option.id], s3)

\* resolve_merge_incoming_add_ignore reverting the victim's text on the way.
resolve_merge_incoming_add_ignore_reverting(option, c, w, env) ==
  LET s1 == svn_wc__acquire_write_lock_for_resolve(Start(w), "local", env)
      s2 == Step(s1, "del_tree_conflict", "local", env,
                 [s1.wc EXCEPT !.tree_conflict = FALSE, !.content = << >>])
      s3 == Notify(s2, "resolved_tree")
      s4 == svn_wc__release_write_lock(s3, "local", env)
  IN IF s1.err # SVN_NO_ERROR THEN Return(c, s1)
     ELSE IF s4.err # SVN_NO_ERROR THEN Return(c, s4)
     ELSE Return([c EXCEPT !.resolution_tree = option.id], s4)

resolve_merge_incoming_add_ignore(option, c, w, env) ==
  LET s1 == svn_wc__acquire_write_lock_for_resolve(Start(w), "local", env)
      s2 == svn_wc__del_tree_conflict(s1, env)
      s3 == Notify(s2, "resolved_tree")
      s4 == svn_wc__release_write_lock(s3, "local", env)
  IN IF s1.err # SVN_NO_ERROR THEN Return(c, s1)
     ELSE IF s4.err # SVN_NO_ERROR THEN Return(c, s4)
     ELSE Return([c EXCEPT !.resolution_tree = option.id], s4)

-----------------------------------------------------------------------------
(* Files: the repository side, and the library calls that change a file.    *)

\* Content and properties of the incoming added node, and of the victim as
\* the working copy has it when the conflict is raised.
IncomingContent == <<"I">>
IncomingProps == {"pi"}
WorkingContent == <<"W">>
WorkingProps == {"pw"}

\* Three-way merge of THEIRS into MINE against an empty base.
Mrg(theirs, mine) ==
  IF theirs = mine THEN mine
  ELSE <<"(">> \o theirs \o <<"+">> \o mine \o <<")">>

\* Apply the property changes svn_prop_diffs(TARGET, SOURCE) describes.
ApplyPropDiffs(cur, target, source) ==
  (cur \ (source \ target)) \cup (target \ source)

\* A call that has nothing to do with the working-copy node: it can only
\* succeed or fail.
Plain(s, name, env) == Step(s, name, "", env, s.wc)

\* svn_stream_open_readonly(local_abspath): there must be a file on disk.
svn_stream_open_readonly(s, env) ==
  IF s.wc.disk_kind = "file" THEN Plain(s, "stream_open_readonly", env)
  ELSE [s EXCEPT !.ev = Append(@, <<"stream_open_readonly", "", FALSE>>),
                 !.err = svn_error_compose_create(@, <<"stream_open_readonly">>)]

svn_wc_delete4(s, env) ==
  Step(s, "delete4", "local", env,
       [s.wc EXCEPT !.status = "deleted", !.disk_kind = "none",
                    !.copied = FALSE,
                    !.tree_conflict = FALSE, !.text_conflict = FALSE,
                    !.prop_conflicts = {}, !.content = << >>, !.props = {}])

svn_wc_add_repos_file4(s, content, props, env) ==
  Step(s, "add_repos_file4", "local", env,
       [s.wc EXCEPT !.status = "replaced", !.copied = TRUE,
                    !.disk_kind = "file",
                    !.content = content, !.props = props])

svn_wc_merge5(s, theirs, target_props, source_props, env) ==
  Step(s, "merge5", theirs, env,
       [s.wc EXCEPT !.content = Mrg(theirs, @),
                    !.text_conflict = (theirs # s.wc.content),
                    !.props = ApplyPropDiffs(@, target_props, source_props)])

\* The first of the states SS (in program order) that carries an error,
\* the last one when none does: the path a chain of SVN_ERR()s takes.
FirstErr(ss) ==
  IF \E i \in 1..Len(ss) : ss[i].err # SVN_NO_ERROR
  THEN ss[CHOOSE i \in 1..Len(ss) :
            /\ ss[i].err # SVN_NO_ERROR
            /\ \A j \in 1..(i - 1) : ss[j].err = SVN_NO_ERROR]
  ELSE ss[Len(ss)]

\* resolve_merge_incoming_added_file_text_merge merging before it clears
\* the tree conflict.
resolve_merge_incoming_added_file_text_merge_first(option, c, w, env) ==
  LET p1 == Plain(Start(w), "get_tmpdir", env)
      p2 == Plain(p1, "open_ra_session", env)
      p3 == Plain(p2, "ra_get_file", env)
      p4 == Plain(p3, "stream_close", env)
      p5 == Plain(p4, "prop_diffs", env)
      pre == FirstErr(<<p1, p2, p3, p4, p5>>)
      s1 == svn_wc__acquire_write_lock_for_resolve(pre, "local", env)
      s2 == svn_wc_merge5(s1, IncomingContent, IncomingProps, {}, env)
      s3 == svn_wc__del_tree_conflict(s2, env)
      s4 == svn_wc__release_write_lock(s3, "local", env)
      s5 == Notify(Notify(s4, "update_update"), "resolved_tree")
  IN IF pre.err # SVN_NO_ERROR THEN Return(c, pre)
     ELSE IF s1.err # SVN_NO_ERROR THEN Return(c, s1)
     ELSE IF s2.err # SVN_NO_ERROR
     THEN Return(c, svn_wc__release_write_lock(s2, "local", env))
     ELSE IF s4.err # SVN_NO_ERROR THEN Return(c, s4)
     ELSE Return([c EXCEPT !.resolution_tree = option.id], s5)

resolve_merge_incoming_added_file_text_merge(option, c, w, env) ==
  LET p1 == Plain(Start(w), "get_tmpdir", env)
      p2 == Plain(p1, "open_ra_session", env)
      p3 == Plain(p2, "ra_get_file", env)
      p4 == Plain(p3, "stream_close", env)
      p5 == Plain(p4, "prop_diffs", env)
      pre == FirstErr(<<p1, p2, p3, p4, p5>>)
      s1 == svn_wc__acquire_write_lock_for_resolve(pre, "local", env)
      s2 == svn_wc__del_tree_conflict(s1, env)
      s3 == svn_wc_merge5(s2, IncomingContent, IncomingProps, {}, env)
      s4 == svn_wc__release_write_lock(s3, "local", env)
      s5 == Notify(Notify(s4, "update_update"), "resolved_tree")
  IN IF pre.err # SVN_NO_ERROR THEN Return(c, pre)
     ELSE IF s1.err # SVN_NO_ERROR THEN Return(c, s1)
     ELSE IF s2.err # SVN_NO_ERROR
     THEN Return(c, svn_wc__release_write_lock(s2, "local", env))
     ELSE IF s4.err # SVN_NO_ERROR THEN Return(c, s4)
     ELSE Return([c EXCEPT !.resolution_tree = option.id], s5)

merge_incoming_added_file_replace(option, c, w, merge_files, env) ==
  LET working_file_tmp == w.content
      working_props == w.props
      p1 == Plain(Start(w), "get_tmpdir", env)
      p2 == svn_stream_open_readonly(p1, env)
      p3 == Plain(p2, "prop_list2", env)
      p4 == Plain(p3, "open_ra_session", env)
      p5 == Plain(p4, "ra_get_file", env)
      pre == FirstErr(<<p1, p2, p3, p4, p5>>)
      s1 == svn_wc__acquire_write_lock_for_resolve(pre, "local", env)
      s2 == svn_wc_delete4(s1, env)
      s3 == svn_wc_add_repos_file4(s2, IncomingContent, IncomingProps, env)
      s4 == svn_wc__del_tree_conflict(Notify(s3, "add"), env)
      m0 == Plain(s4, "open_unique_file3", env)
      m1 == Plain(m0, "prop_diffs", env)
      m2 == svn_wc_merge5(m1, working_file_tmp, IncomingProps,
                          working_props, env)
      m3 == Notify(m2, "update_update")
      body == IF merge_files THEN FirstErr(<<s2, s3, s4, m0, m1, m2, m3>>)
              ELSE FirstErr(<<s2, s3, s4>>)
      u1 == svn_wc__release_write_lock(body, "local", env)
      u2 == Plain(u1, "stream_close", env)
      u3 == Notify(u2, "resolved_tree")
  IN IF pre.err # SVN_NO_ERROR THEN Return(c, pre)
     ELSE IF s1.err # SVN_NO_ERROR THEN Return(c, s1)
     ELSE IF u1.err # SVN_NO_ERROR THEN Return(c, u1)
     ELSE IF u2.err # SVN_NO_ERROR THEN Return(c, u2)
     ELSE Return([c EXCEPT !.resolution_tree = option.id], u3)

resolve_merge_incoming_added_file_replace(option, c, w, env) ==
  merge_incoming_added_file_replace(option, c, w, FALSE, env)

resolve_merge_incoming_added_file_replace_and_merge(option, c, w, env) ==
  merge_incoming_added_file_replace(option, c, w, TRUE, env)

-----------------------------------------------------------------------------
(* Location segments.                                                      *)

\* svn_location_segment_t; the path of a gap in the history is NULL.
Segment(range_start, range_end, path) ==
  [range_start |-> range_start, range_end |-> range_end, path |-> path]

\* svn_relpath_dirname on the relpaths of the model, which have at most two
\* components.
svn_relpath_dirname(relpath) ==
  CASE relpath \in {"A/p", "A/o"} -> "A"
    [] relpath = "B/p" -> "B"
    [] OTHER -> ""

\* svn_relpath_skip_ancestor(parent, child) # NULL: CHILD is PARENT or
\* beneath it.
svn_relpath_skip_ancestor(parent_relpath, child_relpath) ==
  \/ parent_relpath = ""
  \/ parent_relpath = child_relpath
  \/ child_relpath # "" /\ svn_relpath_dirname(child_relpath) = parent_relpath

\* find_added_rev taking the gaps for the segments of interest.
find_added_rev_of_gaps(b, segment) ==
  IF segment.path = "NULL"
  THEN [b EXCEPT !.added_rev = segment.range_start,
                 !.repos_relpath = segment.path]
  ELSE b

\* find_added_rev keeping what the first segment of interest gave it.
find_added_rev_once(b, segment) ==
  IF /\ segment.path # "NULL"
     /\ b.added_rev = SVN_INVALID_REVNUM
     /\ \/ b.parent_repos_relpath = "NULL"
        \/ svn_relpath_skip_ancestor(b.parent_repos_relpath, segment.path)
  THEN [b EXCEPT !.added_rev = segment.range_start,
                 !.repos_relpath = segment.path]
  ELSE b

\* find_added_rev without its parent_repos_relpath filter.
find_added_rev_anywhere(b, segment) ==
  IF segment.path # "NULL"
  THEN [b EXCEPT !.added_rev = segment.range_start,
                 !.repos_relpath = segment.path]
  ELSE b

\* The receiver of svn_ra_get_location_segments, on the baton B (struct
\* find_added_rev_baton): every segment with a path, beneath the parent
\* when the baton names one, overwrites what the segment before it left.
find_added_rev(b, segment) ==
  IF segment.path # "NULL"
  THEN IF \/ b.parent_repos_relpath = "NULL"
          \/ svn_relpath_skip_ancestor(b.parent_repos_relpath,
                                       segment.path)
       THEN [b EXCEPT !.added_rev = segment.range_start,
                      !.repos_relpath = segment.path]
       ELSE b
  ELSE b

\* svn_ra_get_location_segments calling find_added_rev on each segment of
\* the stream, on the baton the three callers set up.
RECURSIVE trace_added_rev(_, _)
trace_added_rev(b, segments) ==
  IF segments = << >> THEN b
  ELSE trace_added_rev(find_added_rev(b, Head(segments)), Tail(segments))

-----------------------------------------------------------------------------
(* Directories.                                                            *)

\* Repository content of the directory the replace resolvers replaced.
BaseContent == <<"B">>

\* svn_client__merge_locked(source1@rev1, source2@rev2 -> local) followed
\* by svn_client__make_merge_conflict_error(conflict_report): the merge can
\* fail, and a merge that ran can report conflicts (env.report).
svn_client__merge_locked(s, theirs, source1, rev1, source2, rev2, env) ==
  LET m == Step(s, "merge_locked", <<source1, rev1, source2, rev2>>, env,
                [s.wc EXCEPT !.content = Mrg(theirs, @)])
  IN IF m.err = s.err /\ env.report
     THEN [m EXCEPT !.err = svn_error_compose_create(@, <<"merge_conflict">>)]
     ELSE m

\* resolve_merge_incoming_added_dir_merge without its checks that the
\* details are there and tell the revision the merge starts at.
resolve_merge_incoming_added_dir_merge_unchecked(option, c, w, d, env) ==
  LET details == c.tree_conflict_incoming_details
      forward == d.old_rev < d.new_rev
      rev1 == IF forward THEN details.added_rev ELSE details.deleted_rev
      rev2 == IF forward THEN d.new_rev ELSE d.old_rev
      source2 == IF forward THEN d.new_relpath ELSE d.old_relpath
      s1 == svn_wc__acquire_write_lock_for_resolve(Start(w), "local", env)
      s2 == svn_wc__del_tree_conflict(s1, env)
      s3 == svn_client__merge_locked(s2, IncomingContent,
                                     details.repos_relpath, rev1,
                                     source2, rev2, env)
      s4 == svn_wc__release_write_lock(s3, "local", env)
      s5 == Notify(s4, "resolved_tree")
  IN IF s1.err # SVN_NO_ERROR THEN Return(c, s1)
     ELSE IF s2.err # SVN_NO_ERROR
     THEN Return(c, svn_wc__release_write_lock(s2, "local", env))
     ELSE IF s4.err # SVN_NO_ERROR THEN Return(c, s4)
     ELSE Return([c EXCEPT !.resolution_tree = option.id], s5)

resolve_merge_incoming_added_dir_merge(option, c, w, d, env) ==
  LET details == c.tree_conflict_incoming_details
      forward == d.old_rev < d.new_rev
      rev1 == IF forward THEN details.added_rev ELSE details.deleted_rev
      rev2 == IF forward THEN d.new_rev ELSE d.old_rev
      source2 == IF forward THEN d.new_relpath ELSE d.old_relpath
      failure == [Start(w) EXCEPT !.err = <<"WC_CONFLICT_RESOLVER_FAILURE">>]
      s1 == svn_wc__acquire_write_lock_for_resolve(Start(w), "local", env)
      s2 == svn_wc__del_tree_conflict(s1, env)
      s3 == svn_client__merge_locked(s2, IncomingContent,
                                     details.repos_relpath, rev1,
                                     source2, rev2, env)
      s4 == svn_wc__release_write_lock(s3, "local", env)
      s5 == Notify(s4, "resolved_tree")
  IN IF ~details.present THEN Return(c, failure)
     ELSE IF rev1 = SVN_INVALID_REVNUM THEN Return(c, failure)
     ELSE IF s1.err # SVN_NO_ERROR THEN Return(c, s1)
     ELSE IF s2.err # SVN_NO_ERROR
     THEN Return(c, svn_wc__release_write_lock(s2, "local", env))
     ELSE IF s4.err # SVN_NO_ERROR THEN Return(c, s4)
     ELSE Return([c EXCEPT !.resolution_tree = option.id], s5)

\* The repository path svn_wc__node_get_base reports for the directory the
\* replace resolvers replaced.
base_repos_relpath == "A/p"

svn_client__checkout_internal(s, env) ==
  Step(s, "checkout_internal", "tmp", env, [s.wc EXCEPT !.tmp = "wc"])

svn_wc_copy3(s, env) ==
  Step(s, "copy3", "local", env,
       [s.wc EXCEPT !.status = "replaced", !.copied = TRUE,
                    !.content = IncomingContent, !.props = IncomingProps])

\* Removing the root of the temporary checkout from revision control
\* destroys its administrative area, and with it the write lock on it.
svn_wc_remove_from_revision_control2(s, env) ==
  Step(s, "remove_from_revision_control2", "tmp", env,
       [s.wc EXCEPT !.tmp = "disk", !.locks = @ \ {"tmp"}])

svn_io_file_rename2(s, env) ==
  Step(s, "file_rename2", "local", env,
       [s.wc EXCEPT !.tmp = "none", !.disk_kind = "dir"])

\* merge_incoming_added_dir_replace taking its resolve lock on the victim
\* itself instead of on the victim's parent directory.
merge_incoming_added_dir_replace_locking_victim(option, c, w, merge_dirs, env) ==
  LET p1 == Plain(Start(w), "open_ra_session", env)
      p2 == Plain(p1, "get_tmpdir", env)
      p3 == svn_client__checkout_internal(p2, env)
      pre == FirstErr(<<p1, p2, p3>>)
      s1 == svn_wc__acquire_write_lock_for_resolve(pre, "local", env)
      s2 == svn_wc_delete4(s1, env)
      s3 == svn_wc_copy3(s2, env)
      s4 == svn_wc__acquire_write_lock(s3, "tmp", env)
      s5 == svn_wc_remove_from_revision_control2(s4, env)
      s6 == svn_io_file_rename2(s5, env)
      s7 == svn_wc__del_tree_conflict(Notify(s6, "add"), env)
      body == FirstErr(<<s2, s3, s4, s5, s6, s7>>)
      u1 == svn_wc__release_write_lock(body, "local", env)
      u2 == Notify(u1, "resolved_tree")
  IN IF pre.err # SVN_NO_ERROR THEN Return(c, pre)
     ELSE IF s1.err # SVN_NO_ERROR THEN Return(c, s1)
     ELSE IF u1.err # SVN_NO_ERROR THEN Return(c, u1)
     ELSE Return([c EXCEPT !.resolution_tree = option.id], u2)

merge_incoming_added_dir_replace(option, c, w, merge_dirs, env) ==
  LET p1 == Plain(Start(w), "open_ra_session", env)
      p2 == Plain(p1, "get_tmpdir", env)
      p3 == svn_client__checkout_internal(p2, env)
      pre == FirstErr(<<p1, p2, p3>>)
      s1 == svn_wc__acquire_write_lock_for_resolve(pre, "parent", env)
      s2 == svn_wc_delete4(s1, env)
      s3 == svn_wc_copy3(s2, env)
      s4 == svn_wc__acquire_write_lock(s3, "tmp", env)
      s5 == svn_wc_remove_from_revision_control2(s4, env)
      s6 == svn_io_file_rename2(s5, env)
      s7 == svn_wc__del_tree_conflict(Notify(s6, "add"), env)
      m1 == Step(s7, "node_get_base", env.base_revision, env, s7.wc)
      m2 == Plain(m1, "ra_reparent", env)
      m3 == Step(m2, "ra_get_location_segments", env.segments, env, m2.wc)
      b == trace_added_rev(
             [added_rev |-> SVN_INVALID_REVNUM, repos_relpath |-> "NULL",
              parent_repos_relpath |->
                svn_relpath_dirname(base_repos_relpath)],
             env.segments)
      m4 == IF b.added_rev = SVN_INVALID_REVNUM
            THEN [m3 EXCEPT !.err = <<"WC_CONFLICT_RESOLVER_FAILURE">>]
            ELSE m3
      rev1 == IF b.added_rev = env.base_revision
              THEN b.added_rev - 1 ELSE b.added_rev
      m5 == svn_client__merge_locked(m4, BaseContent, "url", rev1,
                                     "url", env.base_revision, env)
      body == IF merge_dirs
              THEN FirstErr(<<s2, s3, s4, s5, s6, s7, m1, m2, m3, m4, m5>>)
              ELSE FirstErr(<<s2, s3, s4, s5, s6, s7>>)
      u1 == svn_wc__release_write_lock(body, "parent", env)
      u2 == Notify(u1, "resolved_tree")
  IN IF pre.err # SVN_NO_ERROR THEN Return(c, pre)
     ELSE IF s1.err # SVN_NO_ERROR THEN Return(c, s1)
     ELSE IF u1.err # SVN_NO_ERROR THEN Return(c, u1)
     ELSE Return([c EXCEPT !.resolution_tree = option.id], u2)

resolve_merge_incoming_added_dir_replace(option, c, w, env) ==
  merge_incoming_added_dir_replace(option, c, w, FALSE, env)

resolve_merge_incoming_added_dir_replace_and_merge(option, c, w, env) ==
  merge_incoming_added_dir_replace(option, c, w, TRUE, env)

-----------------------------------------------------------------------------
(* Incoming deletions.                                                     *)

\* verify_local_state_for_incoming_delete without its comparison of the
\* copy's revision with the revision of the deletion.
verify_local_state_whatever_copyfrom_rev(s, c, d, env) ==
  LET details == c.tree_conflict_incoming_details
      operation == svn_client_conflict_get_operation(d)
      failure(t) == [t EXCEPT !.err = <<"WC_CONFLICT_RESOLVER_FAILURE">>]
      r1 == Plain(s, "get_wcroot", env)
      o1 == Plain(r1, "node_get_origin", env)
      k1 == Plain(r1, "check_path", env)
  IN IF r1.err # SVN_NO_ERROR THEN r1
     ELSE IF operation \in {"update", "switch"}
     THEN IF ~details.present THEN failure(r1)
          ELSE IF o1.err # SVN_NO_ERROR THEN o1
          ELSE IF ~s.wc.copied THEN failure(o1)
          ELSE IF /\ details.deleted_rev = SVN_INVALID_REVNUM
                  /\ details.added_rev = SVN_INVALID_REVNUM
          THEN failure(o1)
          ELSE IF /\ details.added_rev # SVN_INVALID_REVNUM
                  /\ s.wc.copyfrom_rev < details.added_rev
          THEN failure(o1)
          ELSE IF /\ operation = "update"
                  /\ s.wc.copyfrom_relpath # details.repos_relpath
          THEN failure(o1)
          ELSE IF /\ operation = "switch"
                  /\ s.wc.copyfrom_relpath # d.old_relpath
          THEN failure(o1)
          ELSE o1
     ELSE IF operation = "merge"
     THEN IF k1.err # SVN_NO_ERROR THEN k1
          ELSE IF svn_client_conflict_tree_get_victim_node_kind(d)
                    # s.wc.disk_kind
          THEN failure(k1)
          ELSE k1
     ELSE r1

\* The error verify_local_state_for_incoming_delete returns, given what the
\* working copy says about the victim's origin and on-disk kind.
verify_local_state_for_incoming_delete(s, c, d, env) ==
  LET details == c.tree_conflict_incoming_details
      operation == svn_client_conflict_get_operation(d)
      failure(t) == [t EXCEPT !.err = <<"WC_CONFLICT_RESOLVER_FAILURE">>]
      r1 == Plain(s, "get_wcroot", env)
      o1 == Plain(r1, "node_get_origin", env)
      k1 == Plain(r1, "check_path", env)
  IN IF r1.err # SVN_NO_ERROR THEN r1
     ELSE IF operation \in {"update", "switch"}
     THEN IF ~details.present THEN failure(r1)
          ELSE IF o1.err # SVN_NO_ERROR THEN o1
          ELSE IF ~s.wc.copied THEN failure(o1)
          ELSE IF /\ details.deleted_rev = SVN_INVALID_REVNUM
                  /\ details.added_rev = SVN_INVALID_REVNUM
          THEN failure(o1)
          ELSE IF /\ details.deleted_rev # SVN_INVALID_REVNUM
                  /\ s.wc.copyfrom_rev >= details.deleted_rev
          THEN failure(o1)
          ELSE IF /\ details.added_rev # SVN_INVALID_REVNUM
                  /\ s.wc.copyfrom_rev < details.added_rev
          THEN failure(o1)
          ELSE IF /\ operation = "update"
                  /\ s.wc.copyfrom_relpath # details.repos_relpath
          THEN failure(o1)
          ELSE IF /\ operation = "switch"
                  /\ s.wc.copyfrom_relpath # d.old_relpath
          THEN failure(o1)
          ELSE o1
     ELSE IF operation = "merge"
     THEN IF k1.err # SVN_NO_ERROR THEN k1
          ELSE IF svn_client_conflict_tree_get_victim_node_kind(d)
                    # s.wc.disk_kind
          THEN failure(k1)
          ELSE k1
     ELSE r1

\* resolve_incoming_delete_ignore without the check of the local state.
resolve_incoming_delete_ignore_unverified(option, c, w, d, env) ==
  LET s1 == svn_wc__acquire_write_lock_for_resolve(Start(w), "local", env)
      s3 == Notify(svn_wc__del_tree_conflict(s1, env), "resolved_tree")
      u1 == svn_wc__release_write_lock(s3, "local", env)
  IN IF s1.err # SVN_NO_ERROR THEN Return(c, s1)
     ELSE IF u1.err # SVN_NO_ERROR THEN Return(c, u1)
     ELSE Return([c EXCEPT !.resolution_tree = option.id], u1)

resolve_incoming_delete_ignore(option, c, w, d, env) ==
  LET s1 == svn_wc__acquire_write_lock_for_resolve(Start(w), "local", env)
      s2 == verify_local_state_for_incoming_delete(s1, c, d, env)
      s3 == Notify(svn_wc__del_tree_conflict(s2, env), "resolved_tree")
      body == FirstErr(<<s2, s3>>)
      u1 == svn_wc__release_write_lock(body, "local", env)
  IN IF s1.err # SVN_NO_ERROR THEN Return(c, s1)
     ELSE IF u1.err # SVN_NO_ERROR THEN Return(c, u1)
     ELSE Return([c EXCEPT !.resolution_tree = option.id], u1)

resolve_incoming_delete_accept(option, c, w, d, env) ==
  LET s1 == svn_wc__acquire_write_lock_for_resolve(Start(w), "local", env)
      s2 == verify_local_state_for_incoming_delete(s1, c, d, env)
      s3 == svn_wc_delete4(s2, env)
      s4 == Notify(s3, "resolved_tree")
      body == FirstErr(<<s2, s3, s4>>)
      u1 == svn_wc__release_write_lock(body, "local", env)
  IN IF s1.err # SVN_NO_ERROR THEN Return(c, s1)
     ELSE IF u1.err # SVN_NO_ERROR THEN Return(c, u1)
     ELSE Return([c EXCEPT !.resolution_tree = option.id], u1)

\* option->do_resolve_func(option, conflict, scratch_pool)
do_resolve_func(option, c, w, d, env) ==
  LET f == option.do_resolve_func IN
  CASE f = "resolve_postpone" -> resolve_postpone(option, c, w, env)
    [] f = "resolve_text_conflict" -> resolve_text_conflict(option, c, w, env)
    [] f = "resolve_prop_conflict" -> resolve_prop_conflict(option, c, w, env)
    [] f = "resolve_accept_current_wc_state" ->
         resolve_accept_current_wc_state(option, c, w, env)
    [] f = "resolve_update_break_moved_away" ->
         resolve_update_break_moved_away(option, c, w, env)
    [] f = "resolve_update_raise_moved_away" ->
         resolve_update_raise_moved_away(option, c, w, env)
    [] f = "resolve_update_moved_away_node" ->
         resolve_update_moved_away_node(option, c, w, env)
    [] f = "resolve_merge_incoming_add_ignore" ->
         resolve_merge_incoming_add_ignore(option, c, w, env)
    [] f = "resolve_merge_incoming_added_file_text_merge" ->
         resolve_merge_incoming_added_file_text_merge(option, c, w, env)
    [] f = "resolve_merge_incoming_added_file_replace" ->
         resolve_merge_incoming_added_file_replace(option, c, w, env)
    [] f = "resolve_merge_incoming_added_file_replace_and_merge" ->
         resolve_merge_incoming_added_file_replace_and_merge(option, c, w, env)
    [] f = "resolve_merge_incoming_added_dir_merge" ->
         resolve_merge_incoming_added_dir_merge(option, c, w, d, env)
    [] f = "resolve_merge_incoming_added_dir_replace" ->
         resolve_merge_incoming_added_dir_replace(option, c, w, env)
    [] f = "resolve_merge_incoming_added_dir_replace_and_merge" ->
         resolve_merge_incoming_added_dir_replace_and_merge(option, c, w, env)
    [] f = "resolve_incoming_delete_ignore" ->
         resolve_incoming_delete_ignore(option, c, w, d, env)
    [] f = "resolve_incoming_delete_accept" ->
         resolve_incoming_delete_accept(option, c, w, d, env)

-----------------------------------------------------------------------------
(* What the environment can do to one run of a resolver.                   *)

\* The library calls FUNC makes that can fail ("none": no call fails).
TakesLock(func) == func \notin {"NULL", "resolve_postpone"}

FailPointsOf(func) ==
  {"none"} \cup
  (IF TakesLock(func) THEN {"acquire_write_lock_for_resolve"} ELSE {}) \cup
  CASE func = "resolve_postpone" -> {}
    [] func = "resolve_text_conflict" -> {"conflict_text_mark_resolved"}
    [] func = "resolve_prop_conflict" -> {"conflict_prop_mark_resolved"}
    [] func \in {"resolve_accept_current_wc_state",
                 "resolve_merge_incoming_add_ignore"} -> {"del_tree_conflict"}
    [] func = "resolve_update_break_moved_away" ->
         {"conflict_tree_update_break_moved_away"}
    [] func = "resolve_update_raise_moved_away" ->
         {"conflict_tree_update_raise_moved_away"}
    [] func = "resolve_update_moved_away_node" ->
         {"conflict_tree_update_moved_away_node"}
    [] func = "resolve_merge_incoming_added_file_text_merge" ->
         {"get_tmpdir", "open_ra_session", "ra_get_file", "stream_close",
          "prop_diffs", "del_tree_conflict", "merge5"}
    [] func \in {"resolve_merge_incoming_added_file_replace",
                 "resolve_merge_incoming_added_file_replace_and_merge"} ->
         {"get_tmpdir", "stream_open_readonly", "prop_list2",
          "open_ra_session", "ra_get_file", "delete4", "add_repos_file4",
          "del_tree_conflict", "open_unique_file3", "prop_diffs", "merge5",
          "stream_close"}
    [] func = "resolve_merge_incoming_added_dir_merge" ->
         {"del_tree_conflict", "merge_locked"}
    [] func \in {"resolve_merge_incoming_added_dir_replace",
                 "resolve_merge_incoming_added_dir_replace_and_merge"} ->
         {"open_ra_session", "get_tmpdir", "checkout_internal", "delete4",
          "copy3", "acquire_write_lock", "remove_from_revision_control2",
          "file_rename2", "del_tree_conflict", "node_get_base",
          "ra_reparent", "ra_get_location_segments", "merge_locked"}
    [] func = "resolve_incoming_delete_ignore" ->
         {"get_wcroot", "node_get_origin", "check_path", "del_tree_conflict"}
    [] func = "resolve_incoming_delete_accept" ->
         {"get_wcroot", "node_get_origin", "check_path", "delete4"}
    [] OTHER -> {}

MergesDirs(func) ==
  func \in {"resolve_merge_incoming_added_dir_merge",
            "resolve_merge_incoming_added_dir_replace_and_merge"}

WalksHistory(func) ==
  func = "resolve_merge_incoming_added_dir_replace_and_merge"

\* Highest revision of the modelled repository.
MaxRev == 3

Revs == 1..MaxRev

\* The calls FUNC makes before it takes the lock.
BeforeLock(func) ==
  CASE func = "resolve_merge_incoming_added_file_text_merge" ->
         {"get_tmpdir", "open_ra_session", "ra_get_file", "stream_close",
          "prop_diffs"}
    [] func \in {"resolve_merge_incoming_added_file_replace",
                 "resolve_merge_incoming_added_file_replace_and_merge"} ->
         {"get_tmpdir", "stream_open_readonly", "prop_list2",
          "open_ra_session", "ra_get_file"}
    [] func \in {"resolve_merge_incoming_added_dir_replace",
                 "resolve_merge_incoming_added_dir_replace_and_merge"} ->
         {"open_ra_session", "get_tmpdir", "checkout_internal"}
    [] OTHER -> {}

\* The streams of location segments svn_ra_get_location_segments may
\* deliver for the replaced directory, which exists at BASE_REVISION at
\* base_repos_relpath: it was added there in the base revision or the one
\* before, or was moved there from outside its parent directory, or was
\* renamed within its parent directory.
ReplacedDirSegments(base_revision) ==
  LET r == base_revision IN
  {<<Segment(r, r, base_repos_relpath)>>,
   <<Segment(r - 1, r, base_repos_relpath)>>,
   <<Segment(r, r, base_repos_relpath), Segment(1, r - 1, "q")>>,
   <<Segment(r, r, base_repos_relpath), Segment(1, r - 1, "A/o")>>}

\* What the environment can do to one run of FUNC: the call that fails (if
\* any), whether the release of the lock fails, whether the directory merge
\* reports conflicts, and what the history walk finds.  A choice is left
\* out where the run cannot get to the call it is about.
EnvsFor(func) ==
  {e \in [fail : FailPointsOf(func),
          rel : IF TakesLock(func) THEN BOOLEAN ELSE {FALSE},
          report : IF MergesDirs(func) THEN BOOLEAN ELSE {FALSE},
          segments : IF WalksHistory(func)
                     THEN ReplacedDirSegments(MaxRev - 1)
                            \cup ReplacedDirSegments(MaxRev)
                     ELSE {<< >>},
          base_revision : IF WalksHistory(func)
                          THEN {MaxRev - 1, MaxRev} ELSE {MaxRev}] :
     /\ e.rel => e.fail \notin BeforeLock(func)
                              \cup {"acquire_write_lock_for_resolve"}
     /\ e.report => e.fail = "none"
     /\ WalksHistory(func) =>
          e.segments \in ReplacedDirSegments(e.base_revision)
     /\ (WalksHistory(func) /\ e.fail \notin {"none", "merge_locked"}) =>
          /\ e.base_revision = MaxRev
          /\ e.segments = <<Segment(MaxRev, MaxRev, base_repos_relpath)>>}

-----------------------------------------------------------------------------
(* Tree conflict details.                                                  *)

NoDetails ==
  [present |-> FALSE, deleted_rev |-> SVN_INVALID_REVNUM,
   added_rev |-> SVN_INVALID_REVNUM, repos_relpath |-> "NULL"]

Details(deleted_rev, added_rev, repos_relpath) ==
  [present |-> TRUE, deleted_rev |-> deleted_rev, added_rev |-> added_rev,
   repos_relpath |-> repos_relpath]

\* The streams of location segments svn_ra_get_location_segments may
\* deliver for a node that exists at PEG_REVISION, traced back from there,
\* youngest segment first.  The youngest segment holds the peg revision,
\* so it has a path; older ones may be gaps or have another path.
LocationSegments(peg_revision) ==
  LET peg == peg_revision IN
  {<<Segment(peg, peg, "p")>>}
  \cup (IF peg >= 2
        THEN {<<Segment(peg - 1, peg, "p")>>,
              <<Segment(peg, peg, "p"), Segment(peg - 1, peg - 1, "q")>>,
              <<Segment(peg, peg, "p"), Segment(peg - 1, peg - 1, "NULL")>>}
        ELSE {})
  \cup (IF peg >= 3
        THEN {<<Segment(peg, peg, "p"), Segment(peg - 1, peg - 1, "NULL"),
                Segment(1, peg - 2, "q")>>}
        ELSE {})

\* What the repository answers to one svn_client_conflict_tree_get_details
\* on the conflict D: the revision the log scan finds the deletion in, the
\* location segments of the node the walk starts at (the incoming new node
\* of an addition, the incoming old node otherwise), and whether the
\* repository access fails.
RepoAnswers(d) ==
  LET peg == IF d.action = "add" THEN d.new_rev ELSE d.old_rev IN
  {a \in [deleted_rev : {SVN_INVALID_REVNUM, MaxRev - 1},
          segments : LocationSegments(peg),
          fail : BOOLEAN] :
     a.fail => /\ a.deleted_rev = SVN_INVALID_REVNUM
               /\ a.segments = <<Segment(peg, peg, "p")>>}

get_incoming_delete_details_for_reverse_addition(ans) ==
  LET b == trace_added_rev([added_rev |-> SVN_INVALID_REVNUM,
                            repos_relpath |-> "NULL",
                            parent_repos_relpath |-> "NULL"],
                           ans.segments)
  IN Details(SVN_INVALID_REVNUM, b.added_rev, b.repos_relpath)

\* The value conflict->tree_conflict_incoming_details has afterwards.
conflict_tree_get_details_incoming_delete(c, d, ans) ==
  IF svn_client_conflict_get_operation(d) \in {"update", "switch", "merge"}
  THEN IF d.old_rev < d.new_rev
       THEN IF ans.deleted_rev = SVN_INVALID_REVNUM
            THEN c.tree_conflict_incoming_details
            ELSE Details(ans.deleted_rev, SVN_INVALID_REVNUM, d.new_relpath)
       ELSE get_incoming_delete_details_for_reverse_addition(ans)
  ELSE NoDetails

conflict_tree_get_details_incoming_add(c, d, ans) ==
  LET b == trace_added_rev([added_rev |-> SVN_INVALID_REVNUM,
                            repos_relpath |-> "NULL",
                            parent_repos_relpath |-> "NULL"],
                           ans.segments)
  IN
  IF svn_client_conflict_get_operation(d) \in {"update", "switch"}
  THEN Details(ans.deleted_rev, b.added_rev, b.repos_relpath)
  ELSE IF svn_client_conflict_get_operation(d) = "merge"
  THEN IF d.old_rev < d.new_rev
       THEN Details(SVN_INVALID_REVNUM, b.added_rev, b.repos_relpath)
       ELSE IF ans.deleted_rev = SVN_INVALID_REVNUM
            THEN c.tree_conflict_incoming_details
            ELSE Details(ans.deleted_rev, SVN_INVALID_REVNUM, d.new_relpath)
  ELSE NoDetails

conflict_tree_get_details_incoming_edit(c, d, ans) ==
  Details(SVN_INVALID_REVNUM, SVN_INVALID_REVNUM, "NULL")

\* conflict->tree_conflict_get_incoming_details_func, as
\* conflict_type_specific_setup chooses it.
tree_conflict_get_incoming_details_func(c, d, ans) ==
  LET incoming_change == svn_client_conflict_get_incoming_change(d) IN
  IF incoming_change \in {"delete", "replace"}
  THEN conflict_tree_get_details_incoming_delete(c, d, ans)
  ELSE IF incoming_change = "add"
  THEN conflict_tree_get_details_incoming_add(c, d, ans)
  ELSE conflict_tree_get_details_incoming_edit(c, d, ans)

svn_client_conflict_tree_get_details(c, d, ans) ==
  [c EXCEPT
     !.tree_conflict_incoming_details =
        tree_conflict_get_incoming_details_func(c, d, ans),
     !.tree_conflict_local_details =
        IF svn_client_conflict_get_local_change(d) = "missing"
        THEN TRUE ELSE @]

-----------------------------------------------------------------------------
(* Opening a conflict.                                                     *)

\* svn_client_conflict_get: a fresh object for what the working copy
\* records at local_abspath.
svn_client_conflict_get(w) ==
  [legacy_text_conflict |-> w.text_conflict,
   legacy_tree_conflict |-> w.tree_conflict,
   prop_conflicts |-> w.prop_conflicts,
   legacy_prop_conflict_propname |-> FirstKey(w.prop_conflicts),
   resolution_text |-> "unspecified",
   resolution_tree |-> "unspecified",
   resolved_props |-> [p \in PropNames |-> "unspecified"],
   tree_conflict_incoming_details |-> NoDetails,
   tree_conflict_local_details |-> FALSE]

svn_client_conflict_text_get_resolution(c) == c.resolution_text
svn_client_conflict_tree_get_resolution(c) == c.resolution_tree
svn_client_conflict_prop_get_resolution(c, propname) == c.resolved_props[propname]

\* The tree conflicts a working copy can record.
AllTreeDescs ==
  {[operation |-> o, action |-> a, reason |-> r, node_kind |-> k,
    right_kind |-> rk, old_rev |-> rv[1], new_rev |-> rv[2],
    old_relpath |-> "p",
    new_relpath |-> IF o \in {"switch", "merge"} THEN "q" ELSE "p",
    mime_binary |-> FALSE] :
     o \in Operations, a \in IncomingActions, r \in LocalReasons,
     k \in {"file", "dir"}, rk \in NodeKinds,
     rv \in {<<1, MaxRev>>, <<MaxRev, 1>>}}

\* One descriptor of each class the resolvers tell apart: the local changes
\* no option or resolver names stand for each other ("edited" for them), as
\* do "replaced" and "deleted", and the operation svn_wc_operation_none for
\* an operation with no option of its own; the incoming node kind and the
\* direction of the operation vary where a resolver or a details function
\* reads them.
TreeDescs ==
  {d \in AllTreeDescs :
     /\ d.operation # "none"
     /\ d.reason \in {"edited", "obstructed", "deleted", "moved_away"}
     /\ d.action # "add" => d.right_kind = d.node_kind
     /\ d.action = "add" => d.right_kind # "none"
     /\ d.action \in {"edit", "replace"} => d.old_rev < d.new_rev}

\* The descriptors of text and property conflicts on a file: no text or
\* property resolver reads anything of them but the mime type.
FileDescs ==
  {[operation |-> "update", action |-> "edit", reason |-> "edited",
    node_kind |-> "file", right_kind |-> "file",
    old_rev |-> 1, new_rev |-> MaxRev,
    old_relpath |-> "p", new_relpath |-> "p", mime_binary |-> b] :
     b \in BOOLEAN}

\* The victim of a tree conflict D, as the operation that raised it left it.
TreeVictims(d) ==
  {[tree_conflict |-> TRUE, text_conflict |-> FALSE, prop_conflicts |-> {},
    status |-> "normal", copied |-> org.copied,
    copyfrom_rev |-> org.rev, copyfrom_relpath |-> org.relpath,
    content |-> WorkingContent, props |-> WorkingProps,
    disk_kind |-> dk,
    moved |-> IF d.reason = "moved_away" THEN "moved" ELSE "none",
    tmp |-> "none", locks |-> {}] :
     org \in IF d.action = "delete" /\ d.operation \in {"update", "switch"}
             THEN {[copied |-> FALSE, rev |-> SVN_INVALID_REVNUM,
                    relpath |-> "NULL"]}
                  \cup [copied : {TRUE}, rev : {1, MaxRev - 1},
                        relpath : Relpaths]
             ELSE {[copied |-> FALSE, rev |-> SVN_INVALID_REVNUM,
                    relpath |-> "NULL"]},
     dk \in IF d.action = "delete" /\ d.operation = "merge"
            THEN {d.node_kind, "none"} ELSE {d.node_kind}}

\* A file with a text conflict, property conflicts, or both.
FileVictim(t, ps) ==
  [tree_conflict |-> FALSE, text_conflict |-> t, prop_conflicts |-> ps,
   status |-> "normal", copied |-> FALSE,
   copyfrom_rev |-> SVN_INVALID_REVNUM, copyfrom_relpath |-> "NULL",
   content |-> WorkingContent, props |-> WorkingProps,
   disk_kind |-> "file", moved |-> "none",
   tmp |-> "none", locks |-> {}]

FileVictims ==
  {FileVictim(TRUE, ps) : ps \in SUBSET PropNames}
  \cup {FileVictim(FALSE, ps) : ps \in (SUBSET PropNames) \ {{}}}

-----------------------------------------------------------------------------
(* The public entry points.  Each yields the conflict object and working   *)
(* copy afterwards, the option it settled on (NoOption when none), whether *)
(* the option's do_resolve_func was called, the working-copy calls made     *)
(* and the error returned.  `lookup` is the option id the entry point       *)
(* searched the option list for, which is the id its error message names.  *)

Outcome(r, option, ran) ==
  [c |-> r.c, wc |-> r.wc, ev |-> r.ev, err |-> r.err,
   option |-> option, ran |-> ran, lookup |-> option.id]

\* Return of an error before any resolver is called.
Refused(c, w, option, code) ==
  Outcome(Return(c, [Start(w) EXCEPT !.err = <<code>>]), option, FALSE)

svn_client_conflict_text_resolve(c, w, d, option, env) ==
  IF ~assert_text_conflict(c)
  THEN Refused(c, w, option, "ASSERTION_FAIL")
  ELSE Outcome(do_resolve_func(option, c, w, d, env), option, TRUE)

svn_client_conflict_prop_resolve(c, w, d, propname, option, env) ==
  IF ~assert_prop_conflict(c)
  THEN Refused(c, w, option, "ASSERTION_FAIL")
  ELSE Outcome(do_resolve_func([id |-> option.id,
                                do_resolve_func |-> option.do_resolve_func,
                                propname |-> propname], c, w, d, env),
               option, TRUE)

svn_client_conflict_tree_resolve(c, w, d, option, env) ==
  IF ~assert_tree_conflict(c)
  THEN Refused(c, w, option, "ASSERTION_FAIL")
  ELSE Outcome(do_resolve_func(option, c, w, d, env), option, TRUE)

svn_client_conflict_text_resolve_by_id(c, w, d, option_id, env) ==
  LET option == svn_client_conflict_option_find_by_id(
                  svn_client_conflict_text_get_resolution_options(d),
                  option_id)
  IN IF ~assert_text_conflict(c)
     THEN Refused(c, w, NoOption, "ASSERTION_FAIL")
     ELSE IF option = NoOption
     THEN [Refused(c, w, NoOption, "CLIENT_CONFLICT_OPTION_NOT_APPLICABLE")
             EXCEPT !.lookup = option_id]
     ELSE svn_client_conflict_text_resolve(c, w, d, option, env)

svn_client_conflict_prop_resolve_by_id(c, w, d, propname, option_id, env) ==
  LET option == svn_client_conflict_option_find_by_id(
                  svn_client_conflict_prop_get_resolution_options(d),
                  option_id)
  IN IF ~assert_prop_conflict(c)
     THEN Refused(c, w, NoOption, "ASSERTION_FAIL")
     ELSE IF option = NoOption
     THEN [Refused(c, w, NoOption, "CLIENT_CONFLICT_OPTION_NOT_APPLICABLE")
             EXCEPT !.lookup = option_id]
     ELSE svn_client_conflict_prop_resolve(c, w, d, propname, option, env)

svn_client_conflict_tree_resolve_by_id(c, w, d, option_id, env) ==
  LET option == svn_client_conflict_option_find_by_id(
                  svn_client_conflict_tree_get_resolution_options(d),
                  tree_resolve_by_id_fixup(d, option_id))
  IN IF ~assert_tree_conflict(c)
     THEN Refused(c, w, NoOption, "ASSERTION_FAIL")
     ELSE IF option = NoOption
     THEN [Refused(c, w, NoOption, "CLIENT_CONFLICT_OPTION_NOT_APPLICABLE")
             EXCEPT !.lookup = tree_resolve_by_id_fixup(d, option_id)]
     ELSE svn_client_conflict_tree_resolve(c, w, d, option, env)

-----------------------------------------------------------------------------
(* The deletion locator: find_revision_for_suspected_deletion walks the    *)
(* log of the victim's parent directory with svn_ra_get_log2, whose        *)
(* receiver find_deleted_rev looks for the deleting revision and collects  *)
(* the moves of every revision it is shown (find_moves_in_revision).       *)

\* Log entries one walk is shown at most.
MaxLog == 3

\* Paths below the parent directory; the walk looks for the deletion of
\* DeletedRelpath.
ScanPaths == {"a", "b", "c"}
DeletedRelpath == "a"

\* One item of log_entry->changed_paths2 (svn_log_changed_path2_t).
Changed(path, action, copyfrom_path, copyfrom_rev) ==
  [path |-> path, action |-> action, node_kind |-> "file",
   copyfrom_path |-> copyfrom_path, copyfrom_rev |-> copyfrom_rev]

\* The changed paths a revision REV may have, in the order the hash
\* log_entry->changed_paths2 is iterated in: nothing, a deletion, a move of
\* each node to the next, a node copied twice and deleted, a move next to a
\* replacement.
ChangeLists(rev) ==
  LET Deleted(path) == Changed(path, "D", "NULL", SVN_INVALID_REVNUM)
      Copied(path, from) == Changed(path, "A", from, rev - 1)
      Replaced(path) == Changed(path, "R", "NULL", SVN_INVALID_REVNUM)
  IN {<< >>,
      <<Deleted("a")>>,
      <<Deleted("a"), Copied("b", "a")>>,
      <<Copied("c", "b"), Deleted("b")>>,
      <<Deleted("c"), Copied("a", "c")>>,
      <<Copied("b", "a"), Deleted("a"), Copied("c", "a")>>,
      <<Replaced("a"), Deleted("b"), Copied("c", "b")>>}

\* svn_log_entry_t
LogEntry(revision, changes) ==
  [revision |-> revision, author |-> "author", changes |-> changes]

\* The revisions svn_ra_get_log2 walks from START_REV to END_REV, in the
\* order it delivers them in: youngest first when START_REV >= END_REV and
\* oldest first otherwise.  Revision 0 changes no path of the directory.
RevisionsWalked(start_rev, end_rev) ==
  IF start_rev >= end_rev
  THEN LET lo == IF end_rev < 1 THEN 1 ELSE end_rev
       IN [i \in 1..(start_rev - lo + 1) |-> start_rev + 1 - i]
  ELSE [i \in 1..(end_rev - start_rev + 1) |-> start_rev - 1 + i]

\* The logs svn_ra_get_log2 may deliver from START_REV to END_REV.
Logs(start_rev, end_rev) ==
  LET revs == RevisionsWalked(start_rev, end_rev) IN
  {[i \in DOMAIN revs |-> LogEntry(revs[i], cl[i])] :
     cl \in {f \in [DOMAIN revs ->
                      UNION {ChangeLists(r) : r \in 1..MaxLog}] :
               \A i \in DOMAIN revs : f[i] \in ChangeLists(revs[i])}}

\* The calls of find_revision_for_suspected_deletion, by the revisions and
\* the related node its callers pass, the operation having gone from
\* revision 1 to revision N or back: (old_rev, new_rev) with no related
\* node after an update forward, which is also (new_rev, old_rev) of a
\* reverse merge's addition; (new_rev, old_rev) with the old location as
\* the related node after a switch or merge forward; and (the younger of
\* the two, 0) with a related node for a locally missing node.
LocatorCalls ==
  {[start_rev |-> 1, end_rev |-> n, related_repos_relpath |-> "NULL"] :
     n \in 1..MaxLog}
  \cup {[start_rev |-> n, end_rev |-> 1, related_repos_relpath |-> "b"] :
          n \in 2..MaxLog}
  \cup {[start_rev |-> n, end_rev |-> 0, related_repos_relpath |-> "b"] :
          n \in 1..MaxLog}

\* struct repos_move_info; prev and next are positions in the list of all
\* moves found so far, 0 for NULL.
Move(from, to, rev, author, copyfrom_rev) ==
  [moved_from_repos_relpath |-> from, moved_to_repos_relpath |-> to,
   rev |-> rev, rev_author |-> author, copyfrom_rev |-> copyfrom_rev,
   prev |-> 0, next |-> 0]

\* struct copy_info
CopyInfo(item) ==
  [copyto_path |-> item.path, copyfrom_path |-> item.copyfrom_path,
   copyfrom_rev |-> item.copyfrom_rev]

\* struct find_deleted_rev_baton as find_revision_for_suspected_deletion
\* sets it up.  `moves` holds the repos_move_info objects in the order they
\* were allocated in; moves_table and moved_paths refer to them by position.
NewBaton(related_repos_relpath) ==
  [deleted_repos_relpath |-> DeletedRelpath,
   related_repos_relpath |-> related_repos_relpath,
   deleted_rev |-> SVN_INVALID_REVNUM,
   deleted_rev_author |-> "NULL",
   replacing_node_kind |-> "unknown",
   moves |-> << >>,
   moves_table |-> [r \in 0..(MaxLog + 1) |-> << >>],
   moved_paths |-> [p \in ScanPaths |-> 0]]

\* What a receiver or a step of it returns: the baton, the error, and the
\* call that raised the error.
Received(b, err, by) == [b |-> b, err |-> err, by |-> by]

\* copies_with_same_source_path taking every item that has a copyfrom path
\* for a copy, whatever its action.
copies_of_any_action(changes, deleted_repos_relpath) ==
  LET items == SelectSeq(changes,
                 LAMBDA it : it.copyfrom_path = deleted_repos_relpath)
  IN [j \in 1..Len(items) |-> CopyInfo(items[j])]

\* The copies of a revision that have the deleted path as their source:
\* apr_hash_get(copies, deleted_repos_relpath).
copies_with_same_source_path(changes, deleted_repos_relpath) ==
  LET items == SelectSeq(changes,
                 LAMBDA it : /\ it.action = "A"
                             /\ it.copyfrom_path = deleted_repos_relpath)
  IN [j \in 1..Len(items) |-> CopyInfo(items[j])]

\* The paths a revision deleted or replaced, in iteration order.
deleted_paths_of(changes) ==
  LET items == SelectSeq(changes, LAMBDA it : it.action \in {"D", "R"})
  IN [i \in 1..Len(items) |-> items[i].path]

\* The pairs (deleted path, copy of it) in the order the two loops of
\* find_moves_in_revision visit them.
RECURSIVE MoveCandidates(_, _, _)
MoveCandidates(changes, deleted_paths, i) ==
  IF i > Len(deleted_paths) THEN << >>
  ELSE LET cs == copies_with_same_source_path(changes, deleted_paths[i])
       IN [j \in 1..Len(cs) |->
             [deleted_repos_relpath |-> deleted_paths[i], copy |-> cs[j]]]
          \o MoveCandidates(changes, deleted_paths, i + 1)

\* link_to_next_move without the assertion on the revisions.
link_to_next_move_unasserted(move, next_move, related) ==
  [err |-> SVN_NO_ERROR, linked |-> related]

\* Linking a new move to the move NEXT_MOVE of the same node found before,
\* RELATED being what check_move_ancestry says of the two: the error of the
\* assertion, or whether the moves are linked.
link_to_next_move(move, next_move, related) ==
  IF ~related THEN [err |-> SVN_NO_ERROR, linked |-> FALSE]
  ELSE IF ~(move.rev < next_move.rev)
  THEN [err |-> <<"ASSERTION_FAIL">>, linked |-> FALSE]
  ELSE [err |-> SVN_NO_ERROR, linked |-> TRUE]

\* add_move_to_moves_table taking the revision the node was copied from
\* for the revision of the move.
add_move_to_table_of_copyfrom_rev(moves_table, move, idx) ==
  [moves_table EXCEPT ![move.copyfrom_rev] = Append(@, idx)]

\* Appending the move at position IDX to the list of its revision.
add_move_to_moves_table(moves_table, move, idx) ==
  [moves_table EXCEPT ![move.rev] = Append(@, idx)]

\* The body of the inner loop of find_moves_in_revision for the K-th
\* candidate; env.ancestry[K] and env.link are what check_move_ancestry
\* answers ("related", "unrelated", or "fail" with the error env.code).
remember_move(b, log_entry, cand, k, env) ==
  LET move == Move(cand.deleted_repos_relpath, cand.copy.copyto_path,
                   log_entry.revision, log_entry.author,
                   cand.copy.copyfrom_rev)
      idx == Len(b.moves) + 1
      next_idx == b.moved_paths[move.moved_to_repos_relpath]
      l == link_to_next_move(move, b.moves[next_idx], env.link = "related")
      linked == next_idx # 0 /\ l.linked
      moves1 == IF linked
                THEN [b.moves EXCEPT ![next_idx].prev = idx]
                ELSE b.moves
      move1 == IF linked THEN [move EXCEPT !.next = next_idx] ELSE move
  IN IF env.ancestry[k] = "fail"
     THEN Received(b, <<env.code>>, "check_move_ancestry")
     ELSE IF env.ancestry[k] = "unrelated"
     THEN Received(b, SVN_NO_ERROR, "none")
     ELSE IF next_idx # 0 /\ env.link = "fail"
     THEN Received(b, <<env.code>>, "check_move_ancestry")
     ELSE IF next_idx # 0 /\ l.err # SVN_NO_ERROR
     THEN Received(b, l.err, "assertion")
     ELSE Received(
            [b EXCEPT
               !.moves = Append(moves1, move1),
               !.moved_paths[move.moved_from_repos_relpath] = idx,
               !.moves_table = add_move_to_moves_table(@, move1, idx)],
            SVN_NO_ERROR, "none")

RECURSIVE find_moves_in_revision(_, _, _, _, _)
find_moves_in_revision(b, log_entry, cands, k, env) ==
  IF k > Len(cands) THEN Received(b, SVN_NO_ERROR, "none")
  ELSE LET r == remember_move(b, log_entry, cands[k], k, env)
       IN IF r.err # SVN_NO_ERROR THEN r
          ELSE find_moves_in_revision(r.b, log_entry, cands, k + 1, env)

\* The item of the revision that deletes or replaces the node looked for
\* (a sequence of at most one item).
deleting_items(b, changes) ==
  SelectSeq(changes, LAMBDA it : /\ it.path = b.deleted_repos_relpath
                                 /\ it.action \in {"D", "R"})

\* The receiver of svn_ra_get_log2; env.yca is what
\* svn_client__get_youngest_common_ancestor answers ("found", "none" or
\* "fail").
find_deleted_rev(b, log_entry, env) ==
  LET changes == log_entry.changes
      hit == deleting_items(b, changes)
      asks_yca == hit # << >> /\ b.related_repos_relpath # "NULL"
      deleted_node_found ==
        hit # << >> /\ (asks_yca => env.yca = "found")
      b1 == IF deleted_node_found
            THEN [b EXCEPT
                    !.deleted_rev = log_entry.revision,
                    !.deleted_rev_author = log_entry.author,
                    !.replacing_node_kind =
                       IF hit[1].action = "R" THEN hit[1].node_kind
                       ELSE "none"]
            ELSE b
      m == find_moves_in_revision(
             b1, log_entry,
             MoveCandidates(changes, deleted_paths_of(changes), 1), 1, env)
  IN IF changes = << >> THEN Received(b, SVN_NO_ERROR, "none")
     ELSE IF asks_yca /\ env.yca = "fail"
     THEN Received(b, <<env.code>>, "get_youngest_common_ancestor")
     ELSE IF m.err # SVN_NO_ERROR THEN m
     ELSE IF deleted_node_found
     THEN Received(m.b, <<"CANCELLED">>, "find_deleted_rev")
     ELSE m

\* What the repository and the user can do to one call of the receiver on
\* LOG_ENTRY: the answers to the ancestry checks of the candidates, to the
\* check that links a move, and to the common-ancestor lookup; and the
\* error a failing call raises (a cancellation by the user among them).  A
\* choice is left out where the receiver does not ask.
ScanEnvs(b, log_entry) ==
  LET changes == log_entry.changes
      cands == MoveCandidates(changes, deleted_paths_of(changes), 1)
      asks_yca == /\ deleting_items(b, changes) # << >>
                  /\ b.related_repos_relpath # "NULL"
      may_link == \E k \in DOMAIN cands :
                    b.moved_paths[cands[k].copy.copyto_path] # 0
  IN {e \in [ancestry : [DOMAIN cands -> {"related", "unrelated", "fail"}],
             link : IF may_link THEN {"related", "unrelated", "fail"}
                    ELSE {"unrelated"},
             yca : IF asks_yca THEN {"found", "none", "fail"} ELSE {"none"},
             code : {"RA_CANNOT_CONNECT", "CANCELLED"}] :
        LET fails == \/ e.yca = "fail" \/ e.link = "fail"
                     \/ \E k \in DOMAIN cands : e.ancestry[k] = "fail"
        IN /\ ~fails => e.code = "RA_CANNOT_CONNECT"
           /\ e.yca = "fail" =>
                /\ e.link = "unrelated"
                /\ \A k \in DOMAIN cands : e.ancestry[k] = "unrelated"
           /\ \A k \in DOMAIN cands :
                e.ancestry[k] = "fail" =>
                  /\ e.link # "fail"
                  /\ \A j \in DOMAIN cands :
                       j > k => e.ancestry[j] = "unrelated"}

\* first_move_from returning the last such move of the list.
last_move_from(all, moves, path) ==
  LET hits == {i \in DOMAIN moves :
                 all[moves[i]].moved_from_repos_relpath = path}
  IN IF hits = {} THEN 0
     ELSE moves[CHOOSE i \in hits : \A j \in hits : i >= j]

\* The first move of the list MOVES (positions in ALL) that moved PATH
\* away, 0 when there is none.
first_move_from(all, moves, path) ==
  LET hits == {i \in DOMAIN moves :
                 all[moves[i]].moved_from_repos_relpath = path}
  IN IF hits = {} THEN 0
     ELSE moves[CHOOSE i \in hits : \A j \in hits : i <= j]

\* The values find_revision_for_suspected_deletion may leave in *move: the
\* move of the deleted node in the deleting revision; NULL when that
\* revision has no list of moves; and whatever the caller's uninitialized
\* variable holds when the list has no move of the node, since the loop
\* over the list then assigns nothing.
moves_returned(b) ==
  LET moves == b.moves_table[b.deleted_rev]
      found == first_move_from(b.moves, moves, b.deleted_repos_relpath)
  IN IF moves = << >> THEN {0}
     ELSE IF found # 0 THEN {found}
     ELSE {0} \cup DOMAIN b.moves

\* The part of find_revision_for_suspected_deletion after svn_ra_get_log2
\* returned ERR: the error it returns and the outputs it sets (none on an
\* error), MOVE being the value *move ends up with.
find_revision_for_suspected_deletion(b, err, move) ==
  LET silenced == /\ err # SVN_NO_ERROR
                  /\ Head(err) = "CANCELLED"
                  /\ b.deleted_rev # SVN_INVALID_REVNUM
  IN IF err # SVN_NO_ERROR /\ ~silenced
     THEN [err |-> err, set |-> FALSE,
           deleted_rev |-> SVN_INVALID_REVNUM, move |-> 0]
     ELSE IF b.deleted_rev = SVN_INVALID_REVNUM
     THEN [err |-> SVN_NO_ERROR, set |-> TRUE,
           deleted_rev |-> SVN_INVALID_REVNUM, move |-> 0]
     ELSE [err |-> SVN_NO_ERROR, set |-> TRUE,
           deleted_rev |-> b.deleted_rev, move |-> move]

\* One round of the while loop of append_moved_to_chain_description that
\* describes only the move it was called with.
append_moved_to_chain_round_once(description, move, all) ==
  [description |-> Append(description,
                          <<"And then moved away to",
                            all[move].moved_to_repos_relpath,
                            all[move].rev_author, all[move].rev>>),
   move |-> 0]

\* One round of the while loop of append_moved_to_chain_description over
\* the moves ALL: the description and the move the next round is about.
append_moved_to_chain_round(description, move, all) ==
  [description |-> Append(description,
                          <<"And then moved away to",
                            all[move].moved_to_repos_relpath,
                            all[move].rev_author, all[move].rev>>),
   move |-> all[move].next]

\* The state of one walk.  pc: "idle" (no walk), "log" (svn_ra_get_log2
\* running), "returned" (find_revision_for_suspected_deletion returned),
\* "describing" (append_moved_to_chain_description in its loop, `move`
\* being the move of the next round and `described` the move it was called
\* with), "described" (it returned `description`).
NoScan ==
  [pc |-> "idle", log |-> << >>, start_rev |-> 0, end_rev |-> 0,
   b |-> NewBaton("NULL"), err |-> SVN_NO_ERROR, by |-> "none",
   result |-> [err |-> SVN_NO_ERROR, set |-> FALSE,
               deleted_rev |-> SVN_INVALID_REVNUM, move |-> 0],
   described |-> 0, move |-> 0, description |-> << >>]

-----------------------------------------------------------------------------
(* The list of revisions in the description of an incoming edit.           *)

\* Revisions one list holds at most.
MaxEdits == 15

min_revs_for_skipping == 5
max_revs_to_display == 8

\* What the round I (from 0) of the loop appends to the string: a line
\* " r%ld by %s%s", after the line "\n [%d revisions omitted for
\* brevity],\n" where that goes.
describe_incoming_edit_round(edits, num_revs_to_skip, i) ==
  LET nelts == Len(edits)
      details == edits[i + 1]
      line == <<"r", details.rev, "by", details.author,
                IF i < nelts - 1 THEN "," ELSE "">>
      omitted == <<"revisions omitted for brevity", num_revs_to_skip>>
  IN IF num_revs_to_skip > 0
     THEN IF i < max_revs_to_display \div 2 THEN <<line>>
          ELSE IF /\ i >= max_revs_to_display \div 2
                  /\ i < nelts - (max_revs_to_display \div 2)
          THEN << >>
          ELSE (IF i = nelts - (max_revs_to_display \div 2)
                THEN <<omitted>> ELSE << >>)
               \o <<line>>
     ELSE <<line>>

RECURSIVE describe_incoming_edit_loop(_, _, _, _)
describe_incoming_edit_loop(s, edits, num_revs_to_skip, i) ==
  IF i >= Len(edits) THEN s
  ELSE describe_incoming_edit_loop(
         s \o describe_incoming_edit_round(edits, num_revs_to_skip, i),
         edits, num_revs_to_skip, i + 1)

\* revs_to_skip counting from the least number of revisions worth leaving
\* out instead of the number of revisions shown.
revs_to_skip_beyond_minimum(nelts) ==
  IF nelts <= max_revs_to_display THEN 0
  ELSE IF nelts - max_revs_to_display < min_revs_for_skipping THEN 0
  ELSE nelts - min_revs_for_skipping

\* revs_to_skip leaving revisions out only when more than the least number
\* worth leaving out would go.
revs_to_skip_above_minimum(nelts) ==
  IF nelts <= max_revs_to_display THEN 0
  ELSE IF nelts - max_revs_to_display <= min_revs_for_skipping THEN 0
  ELSE nelts - max_revs_to_display

\* The number of revisions the list leaves out.
revs_to_skip(nelts) ==
  IF nelts <= max_revs_to_display THEN 0
  ELSE IF nelts - max_revs_to_display < min_revs_for_skipping THEN 0
  ELSE nelts - max_revs_to_display

describe_incoming_edit_list_modified_revs(edits) ==
  describe_incoming_edit_loop(<< >>, edits, revs_to_skip(Len(edits)), 0)

\* The lists of struct conflict_tree_incoming_edit_details to describe:
\* the revisions that edited the node, and their authors.
EditLists ==
  UNION {{[i \in 1..n |-> [rev |-> first + (i - 1) * step, author |-> a]] :
            first \in 1..2, step \in 1..2, a \in {"jrandom", "jconstant"}} :
         n \in 0..MaxEdits}

NoListing == [pc |-> "idle", edits |-> << >>, s |-> << >>]

-----------------------------------------------------------------------------
(* The state machine.                                                      *)

NoCall ==
  [call |-> "svn_client_conflict_get", id |-> "undefined", propname |-> "",
   lookup |-> "undefined", option |-> NoOption, ran |-> FALSE,
   options |-> << >>, ev |-> << >>, err |-> SVN_NO_ERROR]

Init ==
  /\ \/ /\ desc \in TreeDescs
        /\ wc \in TreeVictims(desc)
     \/ /\ desc \in FileDescs
        /\ wc \in FileVictims
  /\ conflict = svn_client_conflict_get(wc)
  /\ last = NoCall
  /\ budget = MaxCalls
  /\ scan = NoScan
  /\ listing = NoListing

\* What is left of the budget after a call that leaves the conflict object
\* C and the working copy W.  A call that changed neither (refused,
\* postponed, failed before its first effect) ends the behaviour: what can
\* follow it can follow the state before it.
Remaining(c, w) == IF c = conflict /\ w = wc THEN 0 ELSE budget - 1

\* The state after an entry point CALL(ID, PROPNAME) with outcome R.
Finish(call, id, propname, r) ==
  /\ conflict' = r.c
  /\ wc' = r.wc
  /\ last' = [call |-> call, id |-> id, propname |-> propname,
              lookup |-> r.lookup, option |-> r.option, ran |-> r.ran,
              options |-> << >>,
              ev |-> r.ev, err |-> r.err]
  /\ budget' = Remaining(r.c, r.wc)
  /\ UNCHANGED <<desc, scan, listing>>

\* The state after a get_resolution_options call.  It has no effect on the
\* object, so the behaviour ends there as well.
Listed(call, options) ==
  /\ last' = [NoCall EXCEPT !.call = call, !.options = Ids(options)]
  /\ budget' = 0
  /\ UNCHANGED <<desc, conflict, wc, scan, listing>>

TextGetResolutionOptions ==
  /\ budget > 0
  /\ assert_text_conflict(conflict)
  /\ Listed("svn_client_conflict_text_get_resolution_options",
            svn_client_conflict_text_get_resolution_options(desc))

PropGetResolutionOptions ==
  /\ budget > 0
  /\ assert_prop_conflict(conflict)
  /\ Listed("svn_client_conflict_prop_get_resolution_options",
            svn_client_conflict_prop_get_resolution_options(desc))

TreeGetResolutionOptions ==
  /\ budget > 0
  /\ assert_tree_conflict(conflict)
  /\ Listed("svn_client_conflict_tree_get_resolution_options",
            svn_client_conflict_tree_get_resolution_options(desc))

TextResolveById ==
  /\ budget > 0
  /\ assert_text_conflict(conflict)
  /\ \E option_id \in OptionIds :
       \E env \in EnvsFor(svn_client_conflict_option_find_by_id(
                            svn_client_conflict_text_get_resolution_options(desc),
                            option_id).do_resolve_func) :
         Finish("svn_client_conflict_text_resolve_by_id", option_id, "",
                svn_client_conflict_text_resolve_by_id(
                  conflict, wc, desc, option_id, env))

PropResolveById ==
  /\ budget > 0
  /\ assert_prop_conflict(conflict)
  /\ \E option_id \in OptionIds, propname \in PropNames \cup {""} :
       \E env \in EnvsFor(svn_client_conflict_option_find_by_id(
                            svn_client_conflict_prop_get_resolution_options(desc),
                            option_id).do_resolve_func) :
         Finish("svn_client_conflict_prop_resolve_by_id", option_id, propname,
                svn_client_conflict_prop_resolve_by_id(
                  conflict, wc, desc, propname, option_id, env))

TreeResolveById ==
  /\ budget > 0
  /\ assert_tree_conflict(conflict)
  /\ \E option_id \in OptionIds :
       \E env \in EnvsFor(svn_client_conflict_option_find_by_id(
                            svn_client_conflict_tree_get_resolution_options(desc),
                            tree_resolve_by_id_fixup(desc, option_id)
                          ).do_resolve_func) :
         Finish("svn_client_conflict_tree_resolve_by_id", option_id, "",
                svn_client_conflict_tree_resolve_by_id(
                  conflict, wc, desc, option_id, env))

TreeGetDetails ==
  /\ budget > 0
  /\ assert_tree_conflict(conflict)
  /\ \E ans \in RepoAnswers(desc) :
       /\ conflict' = IF ans.fail THEN conflict
                      ELSE svn_client_conflict_tree_get_details(conflict, desc, ans)
       /\ last' = [NoCall EXCEPT
                     !.call = "svn_client_conflict_tree_get_details",
                     !.err = IF ans.fail THEN <<"ra_failure">>
                             ELSE SVN_NO_ERROR]
       /\ budget' = Remaining(conflict', wc)
       /\ UNCHANGED <<desc, wc, scan, listing>>

\* The caller drops the object and opens the conflict again.
Reopen ==
  /\ budget > 0
  /\ conflict' = svn_client_conflict_get(wc)
  /\ last' = NoCall
  /\ budget' = Remaining(conflict', wc)
  /\ UNCHANGED <<desc, wc, scan, listing>>

Next ==
  \/ TextGetResolutionOptions
  \/ PropGetResolutionOptions
  \/ TreeGetResolutionOptions
  \/ TextResolveById
  \/ PropResolveById
  \/ TreeResolveById
  \/ TreeGetDetails
  \/ Reopen

Spec == Init /\ [][Next]_vars

\* Every descriptor, one call: the inputs of the option registry and of the
\* resolve_by_id entry points.
InitOptions ==
  /\ \/ /\ desc \in AllTreeDescs
        /\ wc \in TreeVictims(desc)
     \/ /\ desc \in FileDescs
        /\ wc \in FileVictims
  /\ conflict = svn_client_conflict_get(wc)
  /\ last = NoCall
  /\ budget = 1
  /\ scan = NoScan
  /\ listing = NoListing

SpecOptions == InitOptions /\ [][Next]_vars

-----------------------------------------------------------------------------
(* The walk of the log as a state machine of its own.                      *)

\* No conflict is being resolved while the log is walked or a list of
\* revisions is described.
Idle ==
  /\ desc \in {d \in FileDescs : ~d.mime_binary}
  /\ wc = FileVictim(TRUE, {})
  /\ conflict = svn_client_conflict_get(wc)
  /\ last = NoCall
  /\ budget = 0

\* find_revision_for_suspected_deletion has set up its baton and called
\* svn_ra_get_log2; RELATED_REPOS_RELPATH is NULL when the caller looks for
\* a node related to itself.
InitScan ==
  /\ Idle
  /\ listing = NoListing
  /\ scan \in UNION {{[NoScan EXCEPT
                          !.pc = "log", !.log = log,
                          !.start_rev = call.start_rev,
                          !.end_rev = call.end_rev,
                          !.b = NewBaton(call.related_repos_relpath)] :
                        log \in Logs(call.start_rev, call.end_rev)} :
                     call \in LocatorCalls}

\* svn_ra_get_log2 shows the receiver the next log entry.
FindDeletedRev ==
  /\ scan.pc = "log"
  /\ scan.err = SVN_NO_ERROR
  /\ scan.log # << >>
  /\ \E env \in ScanEnvs(scan.b, Head(scan.log)) :
       LET r == find_deleted_rev(scan.b, Head(scan.log), env)
       IN scan' = [scan EXCEPT !.b = r.b, !.err = r.err, !.by = r.by,
                               !.log = Tail(@)]
  /\ UNCHANGED <<desc, conflict, wc, last, budget, listing>>

\* svn_ra_get_log2 fails by itself: the connection breaks, or the user
\* cancels the operation.
GetLogFails ==
  /\ scan.pc = "log"
  /\ scan.err = SVN_NO_ERROR
  /\ \E code \in {"RA_CANNOT_CONNECT", "CANCELLED"} :
       scan' = [scan EXCEPT !.err = <<code>>, !.by = "ra_session"]
  /\ UNCHANGED <<desc, conflict, wc, last, budget, listing>>

\* svn_ra_get_log2 has returned, with the error of the receiver or its own
\* or at the end of the log, and find_revision_for_suspected_deletion
\* returns.
FindRevisionReturns ==
  /\ scan.pc = "log"
  /\ scan.err # SVN_NO_ERROR \/ scan.log = << >>
  /\ \E move \in IF scan.b.deleted_rev # SVN_INVALID_REVNUM
                 THEN moves_returned(scan.b) ELSE {0} :
       scan' = [scan EXCEPT
                  !.pc = "returned",
                  !.result = find_revision_for_suspected_deletion(
                               scan.b, scan.err, move)]
  /\ UNCHANGED <<desc, conflict, wc, last, budget, listing>>

\* A description function calls append_moved_to_chain_description on a
\* move the walk found, or on NULL, which returns at once.
AppendMovedToChainDescription ==
  /\ scan.pc = "returned"
  /\ scan.result.err = SVN_NO_ERROR
  /\ \E move \in {0} \cup DOMAIN scan.b.moves :
       scan' = [scan EXCEPT
                  !.pc = IF move = 0 THEN "described" ELSE "describing",
                  !.described = move,
                  !.move = move,
                  !.description = <<"Item was moved away">>]
  /\ UNCHANGED <<desc, conflict, wc, last, budget, listing>>

\* The while loop tests `move`: one more round, or the return.
AppendMovedToChainRound ==
  /\ scan.pc = "describing"
  /\ scan' = IF scan.move = 0
             THEN [scan EXCEPT !.pc = "described"]
             ELSE LET r == append_moved_to_chain_round(
                             scan.description, scan.move, scan.b.moves)
                  IN [scan EXCEPT !.description = r.description,
                                  !.move = r.move]
  /\ UNCHANGED <<desc, conflict, wc, last, budget, listing>>

NextScan ==
  \/ FindDeletedRev
  \/ GetLogFails
  \/ FindRevisionReturns
  \/ AppendMovedToChainDescription
  \/ AppendMovedToChainRound

SpecScan == InitScan /\ [][NextScan]_vars

\* The loop of append_moved_to_chain_description has nothing to wait for:
\* a round that can run does run.
SpecScanFair == SpecScan /\ WF_vars(AppendMovedToChainRound)

-----------------------------------------------------------------------------
(* The scan of one revision for moves.                                     *)

\* The changed paths of the revision REV the receiver is shown: those of
\* the walks above, a copy whose source stays, the move of a replaced
\* node, a node replaced by a copy of a deleted one, a copy of another
\* node next to a deletion, and copies from the revision before the last.
MovedChangeLists(rev) ==
  ChangeLists(rev)
  \cup {<<Changed("b", "A", "a", rev - 1)>>,
        <<Changed("a", "R", "NULL", SVN_INVALID_REVNUM),
          Changed("b", "A", "a", rev - 1)>>,
        <<Changed("a", "D", "NULL", SVN_INVALID_REVNUM),
          Changed("b", "R", "a", rev - 1)>>,
        <<Changed("a", "D", "NULL", SVN_INVALID_REVNUM),
          Changed("b", "A", "c", rev - 1)>>,
        <<Changed("a", "D", "NULL", SVN_INVALID_REVNUM),
          Changed("b", "A", "a", rev - 2)>>,
        <<Changed("b", "A", "a", rev - 1),
          Changed("a", "D", "NULL", SVN_INVALID_REVNUM),
          Changed("c", "A", "a", rev - 2)>>}

\* What svn_ra_get_locations may answer for the paths deleted in REV,
\* traced back from REV - 1: the location of each in the revision before
\* the last, which is the path itself, another path, or none ("NULL").
\* In REV - 1 a path is where it is.
Locations(rev) ==
  {l \in [ScanPaths \X {rev - 1, rev - 2} -> ScanPaths \cup {"NULL"}] :
     \A path \in ScanPaths : l[<<path, rev - 1>>] = path}

\* *related, LOCATIONS being the answer of svn_ra_get_locations.
check_move_ancestry(locations, relpath, rev, copyfrom_path, copyfrom_rev) ==
  LET deleted_location == locations[<<relpath, copyfrom_rev>>]
  IN deleted_location # "NULL" /\ deleted_location = copyfrom_path

\* The receiver is about to be shown one revision on a fresh baton.
InitMoves ==
  /\ Idle
  /\ listing = NoListing
  /\ scan \in {[pc |-> "revision", log |-> <<LogEntry(rev, changes)>>,
                 locations |-> locations] @@ NoScan :
                 <<rev, changes, locations>> \in
                   UNION {{<<r, c, l>> : c \in MovedChangeLists(r),
                                         l \in Locations(r)} :
                          r \in 2..MaxLog}}

\* find_deleted_rev is called on the revision, every repository access
\* succeeding.
ScanRevision ==
  /\ scan.pc = "revision"
  /\ LET log_entry == Head(scan.log)
         cands == MoveCandidates(log_entry.changes,
                                 deleted_paths_of(log_entry.changes), 1)
         env == [ancestry |->
                   [k \in DOMAIN cands |->
                      IF check_move_ancestry(
                           scan.locations, cands[k].deleted_repos_relpath,
                           log_entry.revision, cands[k].copy.copyfrom_path,
                           cands[k].copy.copyfrom_rev)
                      THEN "related" ELSE "unrelated"],
                 link |-> "unrelated", yca |-> "none",
                 code |-> "RA_CANNOT_CONNECT"]
         r == find_deleted_rev(scan.b, log_entry, env)
     IN scan' = [scan EXCEPT !.pc = "scanned", !.b = r.b, !.err = r.err,
                             !.by = r.by]
  /\ UNCHANGED <<desc, conflict, wc, last, budget, listing>>

NextMoves == ScanRevision

SpecMoves == InitMoves /\ [][NextMoves]_vars

-----------------------------------------------------------------------------
(* The walk of the location segments of a node.                            *)

\* Segments one walk is shown at most.
MaxSegments == 3

\* The streams svn_ra_get_location_segments may deliver, youngest segment
\* first, each of one revision: the node at a path beneath the directory
\* A, at a path elsewhere, or not there (a gap).
SegmentStreams ==
  UNION {{[i \in 1..n |-> Segment(MaxSegments + 1 - i, MaxSegments + 1 - i,
                                   paths[i])] :
            paths \in [1..n -> {"A/p", "A/o", "q", "NULL"}]} :
         n \in 1..MaxSegments}

\* A caller has set up its find_added_rev_baton, with or without a parent
\* directory, and called svn_ra_get_location_segments.
InitSegments ==
  /\ Idle
  /\ listing = NoListing
  /\ scan \in {[pc |-> "segments", segments |-> segments,
                 delivered |-> << >>,
                 b |-> [added_rev |-> SVN_INVALID_REVNUM,
                        repos_relpath |-> "NULL",
                        parent_repos_relpath |-> parent]] :
                 segments \in SegmentStreams, parent \in {"NULL", "A"}}

\* svn_ra_get_location_segments shows the receiver the next segment.
FindAddedRev ==
  /\ scan.pc = "segments"
  /\ scan.segments # << >>
  /\ scan' = [scan EXCEPT
                !.b = find_added_rev(@, Head(scan.segments)),
                !.delivered = Append(@, Head(scan.segments)),
                !.segments = Tail(@)]
  /\ UNCHANGED <<desc, conflict, wc, last, budget, listing>>

NextSegments == FindAddedRev

SpecSegments == InitSegments /\ [][NextSegments]_vars

-----------------------------------------------------------------------------
(* The revisions in which the victim of an incoming edit was modified.     *)

\* Paths one revision of the log changes at most.
MaxChanged == 2

\* The keys of changed_paths2: paths with a leading slash.
LogPaths == {"/A", "/A/p", "/B", "/B/p"}

\* svn_relpath_canonicalize on the keys of changed_paths2: the leading
\* slash is removed.
svn_relpath_canonicalize(path) ==
  CASE path = "/A" -> "A"
    [] path = "/A/p" -> "A/p"
    [] path = "/B" -> "B"
    [] path = "/B/p" -> "B/p"
    [] OTHER -> path

\* A relpath with a leading slash is not canonical.
relpath_is_canonical(relpath) == relpath \notin LogPaths

\* svn_path_compare_paths: zero for equal paths.
svn_path_compare_paths(path1, path2) == IF path1 = path2 THEN 0 ELSE 1

\* svn_log_changed_path2_t.
LogItem(action, copyfrom_path, text_modified, props_modified) ==
  [action |-> action, copyfrom_path |-> copyfrom_path,
   text_modified |-> text_modified, props_modified |-> props_modified]

LogItems ==
  {LogItem("M", "NULL", "true", "false"),
   LogItem("M", "NULL", "false", "true"),
   LogItem("A", "NULL", "unknown", "unknown"),
   LogItem("A", "/B", "unknown", "unknown"),
   LogItem("R", "NULL", "unknown", "unknown"),
   LogItem("R", "/B", "unknown", "unknown"),
   LogItem("D", "NULL", "unknown", "unknown")}

\* The values of changed_paths2 in a log entry: a hash of the paths the
\* revision changed, or NULL, which is written as the hash without keys.
ChangedPaths2 ==
  UNION {[paths -> LogItems] :
           paths \in {s \in SUBSET LogPaths : Cardinality(s) <= MaxChanged}}

\* The orders in which apr_hash_first and apr_hash_next may go through
\* the keys of a hash.
HashOrders(keys) ==
  {order \in [1..Cardinality(keys) -> keys] :
     \A i, j \in 1..Cardinality(keys) : order[i] = order[j] => i = j}

\* The details find_modified_rev allocates for a log entry.
NewEditDetails(log_entry) ==
  [rev |-> log_entry.revision, author |-> "author",
   text_modified |-> "unknown", props_modified |-> "unknown",
   children_modified |-> "unknown", repos_relpath |-> "NULL"]

\* The loop of find_modified_rev over the keys ORDER of changed_paths2.
\* ST holds the baton, the details and whether an assertion failed;
\* ASSERTS tells whether the build checks the assertions of
\* svn_relpath_skip_ancestor.
RECURSIVE find_modified_rev_paths(_, _, _, _)
find_modified_rev_paths(st, changed_paths2, order, asserts) ==
  IF order = << >> \/ st.aborted THEN st
  ELSE
    LET log_item == changed_paths2[Head(order)]
        path == svn_relpath_canonicalize(Head(order))
        b == st.b
        next ==
          IF /\ svn_path_compare_paths(b.repos_relpath, path) = 0
             /\ log_item.action \in {"M", "A"}
          THEN [st EXCEPT
                  !.details.text_modified = log_item.text_modified,
                  !.details.props_modified = log_item.props_modified,
                  !.details.repos_relpath = path,
                  !.b.repos_relpath =
                     IF log_item.copyfrom_path # "NULL"
                     THEN log_item.copyfrom_path ELSE @]
          ELSE IF b.node_kind = "dir"
          THEN IF asserts /\ ~relpath_is_canonical(b.repos_relpath)
               THEN [st EXCEPT !.aborted = TRUE]
               ELSE IF svn_relpath_skip_ancestor(b.repos_relpath, path)
               THEN [st EXCEPT !.details.children_modified = "true"]
               ELSE st
          ELSE st
    IN find_modified_rev_paths(next, changed_paths2, Tail(order), asserts)

\* find_modified_rev: the baton after LOG_ENTRY was received.
find_modified_rev(b, log_entry, order, asserts) ==
  IF DOMAIN log_entry.changed_paths2 = {}
  THEN [b |-> b, aborted |-> FALSE]
  ELSE
    LET st == find_modified_rev_paths(
                [b |-> b, details |-> NewEditDetails(log_entry),
                 aborted |-> FALSE],
                log_entry.changed_paths2, order, asserts)
        details ==
          IF /\ st.b.node_kind = "dir"
             /\ st.details.children_modified = "unknown"
          THEN [st.details EXCEPT !.children_modified = "false"]
          ELSE st.details
    IN IF st.aborted THEN [b |-> st.b, aborted |-> TRUE]
       ELSE [b |-> [st.b EXCEPT !.edits = Append(@, details)],
             aborted |-> FALSE]

\* conflict_tree_get_details_incoming_edit has set up the baton for the
\* node at the newer side of the conflict and svn_ra_get_log2 is about to
\* deliver a log entry.
InitEdits ==
  /\ Idle
  /\ listing = NoListing
  /\ scan \in {[pc |-> "edits",
                 log_entry |-> [revision |-> MaxRev,
                                changed_paths2 |-> changed_paths2],
                 tracked |-> repos_relpath,
                 b |-> [edits |-> << >>, repos_relpath |-> repos_relpath,
                        node_kind |-> node_kind]] :
                 changed_paths2 \in ChangedPaths2,
                 repos_relpath \in {"A", "B"},
                 node_kind \in NodeKinds}

\* svn_ra_get_log2 shows the receiver the log entry.
FindModifiedRev ==
  /\ scan.pc = "edits"
  /\ \E asserts \in BOOLEAN :
       \E order \in HashOrders(DOMAIN scan.log_entry.changed_paths2) :
         LET r == find_modified_rev(scan.b, scan.log_entry, order, asserts)
         IN scan' = [scan EXCEPT
                       !.pc = IF r.aborted THEN "aborted" ELSE "edited",
                       !.b = r.b]
  /\ UNCHANGED <<desc, conflict, wc, last, budget, listing>>

NextEdits == FindModifiedRev

SpecEdits == InitEdits /\ [][NextEdits]_vars

\* Log entries one walk of the log delivers at most.
MaxEntries == 3

\* The changed_paths2 of the log entries of a walk: no path or one path.
SingleChanges == {cp \in ChangedPaths2 : Cardinality(DOMAIN cp) <= 1}

\* conflict_tree_get_details_incoming_edit has set up the baton and called
\* svn_ra_get_log2 from the older to the newer revision of the conflict.
InitEditLog ==
  /\ Idle
  /\ listing = NoListing
  /\ scan \in {[pc |-> "log", revision |-> 0,
                 log_entry |-> [revision |-> 0,
                                changed_paths2 |-> << >>],
                 tracked |-> repos_relpath, before |-> 0,
                 b |-> [edits |-> << >>, repos_relpath |-> repos_relpath,
                        node_kind |-> node_kind]] :
                 repos_relpath \in {"A", "B"},
                 node_kind \in NodeKinds}

\* svn_ra_get_log2, going up from START to END, shows the receiver the
\* log entry of a revision after the last one shown.
ReceiveLogEntry ==
  /\ scan.pc = "log"
  /\ \E revision \in (scan.revision + 1)..MaxEntries :
       \E changed_paths2 \in SingleChanges :
         \E asserts \in BOOLEAN :
           \E order \in HashOrders(DOMAIN changed_paths2) :
             LET log_entry == [revision |-> revision,
                               changed_paths2 |-> changed_paths2]
                 r == find_modified_rev(scan.b, log_entry, order, asserts)
             IN scan' = [scan EXCEPT
                           !.pc = IF r.aborted THEN "aborted" ELSE "log",
                           !.revision = revision,
                           !.log_entry = log_entry,
                           !.tracked = scan.b.repos_relpath,
                           !.before = Len(scan.b.edits),
                           !.b = r.b]
  /\ UNCHANGED <<desc, conflict, wc, last, budget, listing>>

NextEditLog == ReceiveLogEntry

SpecEditLog == InitEditLog /\ [][NextEditLog]_vars

-----------------------------------------------------------------------------
(* Describing the revisions of an incoming edit.                           *)

InitDescribe ==
  /\ Idle
  /\ scan = NoScan
  /\ listing \in {[NoListing EXCEPT !.pc = "edits", !.edits = edits] :
                    edits \in EditLists}

DescribeIncomingEditListModifiedRevs ==
  /\ listing.pc = "edits"
  /\ listing' = [listing EXCEPT
                   !.pc = "described",
                   !.s = describe_incoming_edit_list_modified_revs(
                           listing.edits)]
  /\ UNCHANGED <<desc, conflict, wc, last, budget, scan>>

NextDescribe == DescribeIncomingEditListModifiedRevs

SpecDescribe == InitDescribe /\ [][NextDescribe]_vars

-----------------------------------------------------------------------------
(* Properties.                                                             *)

ByIdCalls ==
  {"svn_client_conflict_text_resolve_by_id",
   "svn_client_conflict_prop_resolve_by_id",
   "svn_client_conflict_tree_resolve_by_id"}

\* The last call ran a resolver and returned no error.
Succeeded == last.ran /\ last.err = SVN_NO_ERROR

\* C1: after a successful run of a tree resolver other than postpone,
\* get_conflicted on the same conflict object reports tree_conflicted = false.
C1_ResolvedTreeNotConflicted ==
  (/\ last.call = "svn_client_conflict_tree_resolve_by_id"
   /\ Succeeded
   /\ last.option.id # "postpone")
  => ~svn_client_conflict_get_conflicted(conflict).tree_conflicted

\* The ids get_resolution_options returns for the kind of conflict the
\* by-id entry point CALL resolves.
ListedIds(call, d) ==
  SeqToSet(Ids(
    CASE call = "svn_client_conflict_text_resolve_by_id" ->
           svn_client_conflict_text_get_resolution_options(d)
      [] call = "svn_client_conflict_prop_resolve_by_id" ->
           svn_client_conflict_prop_get_resolution_options(d)
      [] OTHER -> svn_client_conflict_tree_get_resolution_options(d)))

\* The last call returned OPTION_NOT_APPLICABLE and made no library call.
NotApplicable ==
  /\ ~last.ran
  /\ last.err = <<"CLIENT_CONFLICT_OPTION_NOT_APPLICABLE">>
  /\ last.ev = << >>

AliasedId(call, d, id) ==
  IF call # "svn_client_conflict_tree_resolve_by_id" THEN id
  ELSE IF id = "merged_text" THEN "accept_current_wc_state"
  ELSE IF id = "working_text_where_conflicted"
          /\ d.operation \in {"update", "switch"}
       THEN IF d.reason = "moved_away" THEN "update_move_destination"
            ELSE IF /\ d.reason \in {"deleted", "replaced"}
                    /\ d.action = "edit"
                    /\ d.node_kind = "dir"
                 THEN "update_any_moved_away_children"
                 ELSE id
  ELSE id

TableIds(d) ==
  LET upd == d.operation \in {"update", "switch"} /\ d.action = "edit"
      add == /\ d.operation = "merge" /\ d.action = "add"
             /\ d.reason = "obstructed"
  IN (IF upd /\ d.reason = "moved_away"
      THEN {"update_move_destination"} ELSE {})
     \cup (IF upd /\ d.reason \in {"deleted", "replaced"} /\ d.node_kind = "dir"
           THEN {"update_any_moved_away_children"} ELSE {})
     \cup (IF add THEN {"merge_incoming_add_ignore"} ELSE {})
     \cup (IF add /\ d.node_kind = "file" /\ d.right_kind = "file"
           THEN {"merge_incoming_added_file_text_merge",
                 "merge_incoming_added_file_replace",
                 "merge_incoming_added_file_replace_and_merge"} ELSE {})
     \cup (IF add /\ d.node_kind = "dir" /\ d.right_kind = "dir"
           THEN {"merge_incoming_added_dir_merge",
                 "merge_incoming_added_dir_replace",
                 "merge_incoming_added_dir_replace_and_merge"} ELSE {})
     \cup (IF d.action = "delete"
           THEN {"incoming_delete_ignore", "incoming_delete_accept"} ELSE {})

\* C3: tree_get_resolution_options returns postpone and
\* accept_current_wc_state first, followed by exactly the ids the table
\* prescribes for the conflict, each once.
C3_TreeOptionsByTable ==
  last.call = "svn_client_conflict_tree_get_resolution_options" =>
    /\ Len(last.options) = 2 + Cardinality(TableIds(desc))
    /\ last.options[1] = "postpone"
    /\ last.options[2] = "accept_current_wc_state"
    /\ {last.options[i] : i \in 3..Len(last.options)} = TableIds(desc)

\* The options of a directory deleted locally and edited by an update.
C3_ListedRaiseChildren ==
  /\ last.call = "svn_client_conflict_tree_get_resolution_options"
  /\ desc.node_kind = "dir"
  /\ last.options = <<"postpone", "accept_current_wc_state",
                      "update_any_moved_away_children">>

\* The ids a text_get_resolution_options call returned.
TextOptionsListed ==
  last.call = "svn_client_conflict_text_get_resolution_options"

\* C4 as stated: on a binary text conflict text_get_resolution_options
\* returns the seven text options less incoming_text_where_conflicted and
\* working_text_where_conflicted, and on any other all seven.
C4_BinaryLessWhereConflicted ==
  TextOptionsListed =>
    last.options =
      IF desc.mime_binary
      THEN <<"postpone", "base_text", "incoming_text", "working_text",
             "merged_text">>
      ELSE <<"postpone", "base_text", "incoming_text", "working_text",
             "incoming_text_where_conflicted",
             "working_text_where_conflicted", "merged_text">>

\* C4: on a binary text conflict text_get_resolution_options returns
\* postpone, incoming_text, working_text and merged_text (base_text is left
\* out along with the where_conflicted pair), and on any other all seven.
C4_BinaryOptions ==
  TextOptionsListed =>
    last.options =
      IF desc.mime_binary
      THEN <<"postpone", "incoming_text", "working_text", "merged_text">>
      ELSE <<"postpone", "base_text", "incoming_text", "working_text",
             "incoming_text_where_conflicted",
             "working_text_where_conflicted", "merged_text">>

\* The options of a binary file were listed, base_text not among them.
C4_BinaryListed ==
  /\ TextOptionsListed
  /\ desc.mime_binary
  /\ Len(last.options) = 4
  /\ "base_text" \notin SeqToSet(last.options)

\* C5: accept_current_wc_state is bound to the break-moved-away resolver
\* exactly when the operation is update or switch, the incoming change an
\* edit and the local change moved_away, deleted or replaced; otherwise it
\* is bound to the plain resolver that clears the tree-conflict record.
C5_AcceptBinding ==
  (/\ last.call = "svn_client_conflict_tree_resolve_by_id"
   /\ last.ran
   /\ last.option.id = "accept_current_wc_state")
  => last.option.do_resolve_func =
       IF /\ desc.operation \in {"update", "switch"}
          /\ desc.action = "edit"
          /\ desc.reason \in {"moved_away", "deleted", "replaced"}
       THEN "resolve_update_break_moved_away"
       ELSE "resolve_accept_current_wc_state"

\* accept_current_wc_state broke the move of a replaced node.
C5_BrokeMove ==
  /\ last.call = "svn_client_conflict_tree_resolve_by_id"
  /\ last.id = "accept_current_wc_state"
  /\ Succeeded
  /\ desc.reason = "replaced"
  /\ last.ev[2][1] = "conflict_tree_update_break_moved_away"
  /\ wc.moved = "broken"

\* The last call resolved a tree conflict by id.
TreeResolvedById == last.call = "svn_client_conflict_tree_resolve_by_id"

\* C6 as stated: working_text_where_conflicted is rewritten to
\* update_move_destination whenever the local change is moved_away, and to
\* update_any_moved_away_children whenever it is deleted or replaced, the
\* incoming change an edit and the victim a directory; merged_text is
\* rewritten to accept_current_wc_state; no other id is rewritten.
C6_RewrittenWhateverOperation ==
  TreeResolvedById =>
    last.lookup =
      IF last.id = "merged_text" THEN "accept_current_wc_state"
      ELSE IF last.id = "working_text_where_conflicted"
                /\ desc.reason = "moved_away"
      THEN "update_move_destination"
      ELSE IF /\ last.id = "working_text_where_conflicted"
              /\ desc.reason \in {"deleted", "replaced"}
              /\ desc.action = "edit"
              /\ desc.node_kind = "dir"
      THEN "update_any_moved_away_children"
      ELSE last.id

\* C6: working_text_where_conflicted is rewritten only when the operation
\* is update or switch: then to update_move_destination when the local
\* change is moved_away, and to update_any_moved_away_children when it is
\* deleted or replaced, the incoming change an edit and the victim a
\* directory; merged_text is always rewritten to accept_current_wc_state;
\* no other id is rewritten.
C6_RewrittenAfterUpdateOrSwitch ==
  TreeResolvedById =>
    last.lookup = AliasedId(last.call, desc, last.id)

\* After a merge, working_text_where_conflicted on a node moved away was
\* looked up as itself and refused.
C6_NotRewrittenAfterMerge ==
  /\ TreeResolvedById
  /\ desc.operation = "merge"
  /\ desc.reason = "moved_away"
  /\ last.id = "working_text_where_conflicted"
  /\ last.lookup = "working_text_where_conflicted"
  /\ NotApplicable

\* The positions in the calls EV of the releases of the lock on PATH.
Releases(ev, path) ==
  {j \in DOMAIN ev : ev[j][1] = "release_write_lock" /\ ev[j][2] = path}

\* The positions after I in EV of the calls, other than a release, that
\* failed.
FailedAfter(ev, i) ==
  {k \in DOMAIN ev : k > i /\ ~ev[k][3] /\ ev[k][1] # "release_write_lock"}

\* C7: once a resolver has acquired write_lock_for_resolve, it releases that
\* lock exactly once before it returns, whether or not a step in between
\* failed; and when both a step in between and the release fail, the
\* returned error carries both errors.
C7_LockReleasedOnce ==
  \A i \in DOMAIN last.ev :
    (last.ev[i][1] = "acquire_write_lock_for_resolve" /\ last.ev[i][3]) =>
      LET path == last.ev[i][2]
          rel == Releases(last.ev, path)
      IN /\ Cardinality(rel) = 1
         /\ \A j \in rel :
              /\ j > i
              /\ last.ev[j][3] => path \notin wc.locks
              /\ ~last.ev[j][3] =>
                   /\ "release_write_lock" \in SeqToSet(last.err)
                   /\ \A k \in FailedAfter(last.ev, i) :
                        k < j /\ last.ev[k][1] \in SeqToSet(last.err)

\* A tree resolver's step under the lock failed, and so did the release.
C7_StepAndReleaseFailed ==
  /\ TreeResolvedById
  /\ \E i \in DOMAIN last.ev :
       last.ev[i] = <<"acquire_write_lock_for_resolve", "local", TRUE>>
  /\ last.err = <<"del_tree_conflict", "release_write_lock">>
  /\ Cardinality(Releases(last.ev, "local")) = 1

\* What the working copy holds of the node at local_abspath.
Node(w) ==
  [tree_conflict |-> w.tree_conflict, text_conflict |-> w.text_conflict,
   prop_conflicts |-> w.prop_conflicts, status |-> w.status,
   copied |-> w.copied, content |-> w.content, props |-> w.props,
   disk_kind |-> w.disk_kind, moved |-> w.moved]

\* The tree resolvers that do not replace the victim.
NotReplacing ==
  {"resolve_accept_current_wc_state", "resolve_merge_incoming_add_ignore",
   "resolve_incoming_delete_ignore", "resolve_incoming_delete_accept",
   "resolve_merge_incoming_added_file_text_merge",
   "resolve_merge_incoming_added_dir_merge",
   "resolve_update_moved_away_node", "resolve_update_raise_moved_away",
   "resolve_update_break_moved_away"}

\* C8: when a tree resolver that does not replace the victim returns an
\* error (here: of a step other than the release of the lock), the
\* tree-conflict record the working copy had before the call is still there
\* and the node is unchanged.
C8_FailureLeavesConflict ==
  [][(/\ last'.call = "svn_client_conflict_tree_resolve_by_id"
      /\ last'.ran
      /\ last'.option.do_resolve_func \in NotReplacing
      /\ last'.err # SVN_NO_ERROR
      /\ "release_write_lock" \notin SeqToSet(last'.err)
      /\ wc.tree_conflict)
     => wc'.tree_conflict /\ Node(wc') = Node(wc)]_vars

C10_SecondRunChangesNothing ==
  [][(/\ last.call = "svn_client_conflict_tree_resolve_by_id"
      /\ Succeeded
      /\ last'.call = "svn_client_conflict_tree_resolve_by_id"
      /\ last'.ran
      /\ last'.err = SVN_NO_ERROR
      /\ last'.option = last.option)
     => Node(wc') = Node(wc)]_vars

IncomingDeleteFuncs ==
  {"resolve_incoming_delete_ignore", "resolve_incoming_delete_accept"}

\* The last call ran one of the two incoming-delete resolvers.
IncomingDeleteRan ==
  /\ last.call = "svn_client_conflict_tree_resolve_by_id"
  /\ last.ran
  /\ last.option.do_resolve_func \in IncomingDeleteFuncs

\* The calls of NAME among the calls EV.
Calls(ev, name) == {i \in DOMAIN ev : ev[i][1] = name}

\* A call of the working-copy library other than the release of the lock
\* failed.
LibraryFailed(ev) == FailedAfter(ev, 0) # {}

\* What an incoming-delete resolver expects, after update or switch, of the
\* conflict object C and the victim W of the conflict D.
LocalStateExpected(c, w, d) ==
  LET details == c.tree_conflict_incoming_details IN
  /\ details.present
  /\ w.copied
  /\ details.deleted_rev # SVN_INVALID_REVNUM
       \/ details.added_rev # SVN_INVALID_REVNUM
  /\ details.deleted_rev # SVN_INVALID_REVNUM =>
       w.copyfrom_rev < details.deleted_rev
  /\ details.added_rev # SVN_INVALID_REVNUM =>
       w.copyfrom_rev >= details.added_rev
  /\ w.copyfrom_relpath = IF d.operation = "update"
                          THEN details.repos_relpath ELSE d.old_relpath

\* C11: after update or switch, incoming_delete_ignore and
\* incoming_delete_accept succeed only if the details were fetched, the node
\* is a copy, deleted_rev or added_rev is valid, copyfrom_rev < deleted_rev
\* when that is valid, copyfrom_rev >= added_rev when that is valid, and
\* copyfrom_relpath is details.repos_relpath (update) or the incoming old
\* relpath (switch).  When one of these fails (and no call of the library
\* does) the resolver returns WC_CONFLICT_RESOLVER_FAILURE, calls neither
\* delete4 nor del_tree_conflict, sends no resolved_tree notification,
\* releases the lock once, and leaves the node and the conflict object as
\* they were.
C11_DeleteNeedsExpectedLocalState ==
  [][(/\ last'.call = "svn_client_conflict_tree_resolve_by_id"
      /\ last'.ran
      /\ last'.option.do_resolve_func \in IncomingDeleteFuncs
      /\ desc.operation \in {"update", "switch"})
     => /\ last'.err = SVN_NO_ERROR => LocalStateExpected(conflict, wc, desc)
        /\ (~LocalStateExpected(conflict, wc, desc)
            /\ ~LibraryFailed(last'.ev)) =>
             /\ last'.err # SVN_NO_ERROR
             /\ Head(last'.err) = "WC_CONFLICT_RESOLVER_FAILURE"
             /\ Calls(last'.ev, "delete4") = {}
             /\ Calls(last'.ev, "del_tree_conflict") = {}
             /\ Calls(last'.ev, "notify") = {}
             /\ Cardinality(Releases(last'.ev, "local")) = 1
             /\ Node(wc') = Node(wc)
             /\ conflict' = conflict]_vars

\* After a switch, incoming_delete_accept was refused for a copy of the
\* right path whose revision is not older than the deletion; the lock is
\* free again and the conflict still recorded.
C11_CopyTooYoungRefused ==
  /\ IncomingDeleteRan
  /\ last.option.id = "incoming_delete_accept"
  /\ desc.operation = "switch"
  /\ conflict.tree_conflict_incoming_details.present
  /\ conflict.tree_conflict_incoming_details.deleted_rev # SVN_INVALID_REVNUM
  /\ wc.copied
  /\ wc.copyfrom_relpath = desc.old_relpath
  /\ wc.copyfrom_rev >= conflict.tree_conflict_incoming_details.deleted_rev
  /\ last.err = <<"WC_CONFLICT_RESOLVER_FAILURE">>
  /\ wc.locks = {}
  /\ wc.tree_conflict


\* What a conflict object opened on the working copy W reports.
FreshlyConflicted(w) ==
  svn_client_conflict_get_conflicted(svn_client_conflict_get(w))

NotConflicted ==
  [text_conflicted |-> FALSE, props_conflicted |-> {},
   tree_conflicted |-> FALSE]

TreeConflictedOnly ==
  [text_conflicted |-> FALSE, props_conflicted |-> {},
   tree_conflicted |-> TRUE]

\* C12: after a merge, incoming_delete_accept and incoming_delete_ignore
\* require the kind of the victim on disk to be the victim kind the conflict
\* records: otherwise (no library call failing) they return
\* WC_CONFLICT_RESOLVER_FAILURE and change nothing.  When they succeed the
\* kinds were equal, accept has deleted the node, ignore has changed nothing
\* of the node but the tree-conflict record, and a freshly opened conflict
\* reports no text, property or tree conflict.
C12_MergeDeleteChecksKind ==
  [][(/\ last'.call = "svn_client_conflict_tree_resolve_by_id"
      /\ last'.ran
      /\ last'.option.do_resolve_func \in IncomingDeleteFuncs
      /\ desc.operation = "merge")
     => LET kinds_equal ==
              svn_client_conflict_tree_get_victim_node_kind(desc)
                = wc.disk_kind
        IN /\ (~kinds_equal /\ ~LibraryFailed(last'.ev)) =>
                /\ last'.err # SVN_NO_ERROR
                /\ Head(last'.err) = "WC_CONFLICT_RESOLVER_FAILURE"
                /\ Node(wc') = Node(wc)
                /\ conflict' = conflict
           /\ last'.err = SVN_NO_ERROR =>
                /\ kinds_equal
                /\ ~wc'.tree_conflict
                /\ FreshlyConflicted(wc') = NotConflicted
                /\ last'.option.id = "incoming_delete_accept" =>
                     /\ Calls(last'.ev, "delete4") # {}
                     /\ wc'.status = "deleted"
                     /\ wc'.disk_kind = "none"
                /\ last'.option.id = "incoming_delete_ignore" =>
                     /\ Calls(last'.ev, "delete4") = {}
                     /\ Node(wc') = [Node(wc) EXCEPT !.tree_conflict = FALSE]
       ]_vars

\* After a merge, incoming_delete_accept succeeded: the node is deleted and
\* a freshly opened conflict reports nothing.
C12_MergeDeleteAccepted ==
  /\ IncomingDeleteRan
  /\ last.option.id = "incoming_delete_accept"
  /\ desc.operation = "merge"
  /\ last.err = SVN_NO_ERROR
  /\ wc.status = "deleted"
  /\ FreshlyConflicted(wc) = NotConflicted


\* The calls in EV at positions where the lock on PATH, taken by
\* acquire_write_lock_for_resolve, is not held.
OutsideLock(ev, path) ==
  {i \in DOMAIN ev :
     ~\E a \in Calls(ev, "acquire_write_lock_for_resolve") :
        /\ ev[a][3] /\ ev[a][2] = path /\ a < i
        /\ \A j \in Releases(ev, path) : j > i}

\* C13: merge_incoming_add_ignore, on a file or a directory, makes no call
\* but the acquisition of the resolve lock, del_tree_conflict under that
\* lock, the resolved_tree notification and the release: no delete4,
\* add_repos_file4, copy3 or merge5 and no call to the repository.  When it
\* succeeds the node's content, properties and schedule are those from
\* before the call, and a freshly opened conflict reports no tree conflict:
\* no conflict at all when the tree conflict was the only one recorded.
C13_AddIgnoreOnlyClearsConflict ==
  [][(/\ last'.call = "svn_client_conflict_tree_resolve_by_id"
      /\ last'.ran
      /\ last'.option.do_resolve_func = "resolve_merge_incoming_add_ignore")
     => /\ \A i \in DOMAIN last'.ev :
             /\ last'.ev[i][1] \in {"acquire_write_lock_for_resolve",
                                    "del_tree_conflict", "notify",
                                    "release_write_lock"}
             /\ last'.ev[i][1] = "del_tree_conflict" =>
                  i \notin OutsideLock(last'.ev, "local")
        /\ Cardinality(Calls(last'.ev, "del_tree_conflict")) <= 1
        /\ Node(wc') = [Node(wc) EXCEPT !.tree_conflict = wc'.tree_conflict]
        /\ last'.err = SVN_NO_ERROR =>
             /\ Cardinality(Calls(last'.ev, "del_tree_conflict")) = 1
             /\ wc'.content = wc.content
             /\ wc'.props = wc.props
             /\ wc'.status = wc.status
             /\ "local" \notin wc'.locks
             /\ FreshlyConflicted(wc')
                  = [FreshlyConflicted(wc) EXCEPT !.tree_conflicted = FALSE]
             /\ FreshlyConflicted(wc) = TreeConflictedOnly =>
                  FreshlyConflicted(wc') = NotConflicted]_vars

\* The incoming addition of a directory was ignored: the local directory is
\* as it was and no longer in conflict.
C13_AddedDirIgnored ==
  /\ TreeResolvedById
  /\ last.ran
  /\ last.option.id = "merge_incoming_add_ignore"
  /\ desc.node_kind = "dir"
  /\ last.err = SVN_NO_ERROR
  /\ wc.content = WorkingContent
  /\ wc.props = WorkingProps
  /\ wc.status = "normal"
  /\ FreshlyConflicted(wc) = NotConflicted


\* The moves following NEXT from MOVE in the moves ALL, at most FUEL of
\* them.
RECURSIVE NextChain(_, _, _)
NextChain(all, move, fuel) ==
  IF move = 0 \/ fuel = 0 THEN << >>
  ELSE <<move>> \o NextChain(all, all[move].next, fuel - 1)

\* C14: whatever log entries the move scanner was shown, every move it
\* recorded that has a next move is older than that move, every move that
\* has a previous move is younger than it, and following next from any move
\* comes to its end without visiting a move twice.
C14_ChainsAscend ==
  LET all == scan.b.moves IN
  \A i \in DOMAIN all :
    /\ all[i].next # 0 =>
         all[i].next \in DOMAIN all /\ all[i].rev < all[all[i].next].rev
    /\ all[i].prev # 0 =>
         all[i].prev \in DOMAIN all /\ all[all[i].prev].rev < all[i].rev
    /\ LET chain == NextChain(all, i, Len(all) + 1)
       IN /\ Len(chain) <= Len(all)
          /\ all[chain[Len(chain)]].next = 0
          /\ \A j, k \in DOMAIN chain : chain[j] = chain[k] => j = k

\* The walk has returned with three moves of one node chained up.
C14_ChainOfThree ==
  /\ scan.pc = "returned"
  /\ \E i \in DOMAIN scan.b.moves :
       LET chain == NextChain(scan.b.moves, i, Len(scan.b.moves) + 1)
       IN /\ Len(chain) = 3
          /\ scan.b.moves[chain[2]].prev = i

\* C15: after the scan of any log, every move in the list of a revision
\* has that revision, every move recorded is in exactly one list and once
\* in it, and the moves of a list are in the order they were found in.
C15_MovesTableByRevision ==
  LET all == scan.b.moves
      table == scan.b.moves_table
  IN /\ \A r \in DOMAIN table : \A k \in DOMAIN table[r] :
          table[r][k] \in DOMAIN all /\ all[table[r][k]].rev = r
     /\ \A i \in DOMAIN all :
          Cardinality({rk \in (DOMAIN table) \X (1..Len(all)) :
                         /\ rk[2] \in DOMAIN table[rk[1]]
                         /\ table[rk[1]][rk[2]] = i}) = 1
     /\ \A r \in DOMAIN table : \A j, k \in DOMAIN table[r] :
          j < k => table[r][j] < table[r][k]

\* Two revisions have moves, one of them two.
C15_TwoMovesInOneRevision ==
  /\ scan.pc = "returned"
  /\ \E r1, r2 \in DOMAIN scan.b.moves_table :
       /\ r1 # r2
       /\ Len(scan.b.moves_table[r1]) = 2
       /\ Len(scan.b.moves_table[r2]) = 1


\* C16: the details of an incoming deletion stored on a conflict have
\* exactly one of deleted_rev and added_rev valid, deleted_rev when the
\* operation went forward (old_rev < new_rev) and added_rev when it went
\* backwards, whatever location segments the repository delivered.
C16_OneOfDeletedAndAddedRev ==
  LET details == conflict.tree_conflict_incoming_details IN
  /\ assert_tree_conflict(conflict)
  /\ svn_client_conflict_get_incoming_change(desc) \in {"delete", "replace"}
  /\ details.present
  => /\ desc.old_rev < desc.new_rev =>
          /\ details.deleted_rev # SVN_INVALID_REVNUM
          /\ details.added_rev = SVN_INVALID_REVNUM
     /\ desc.new_rev < desc.old_rev =>
          /\ details.added_rev # SVN_INVALID_REVNUM
          /\ details.deleted_rev = SVN_INVALID_REVNUM

\* The details of a deletion by a backwards operation were fetched from a
\* history with a gap: the node was added at another path before the gap.
C16_AddedBeforeGap ==
  /\ last.call = "svn_client_conflict_tree_get_details"
  /\ last.err = SVN_NO_ERROR
  /\ svn_client_conflict_get_incoming_change(desc) = "delete"
  /\ desc.new_rev < desc.old_rev
  /\ conflict.tree_conflict_incoming_details.present
  /\ conflict.tree_conflict_incoming_details.added_rev = 1
  /\ conflict.tree_conflict_incoming_details.repos_relpath = "q"

\* C17: the description of a list of more than 13 revisions has the
\* placeholder for omitted revisions exactly once, counting all revisions
\* but 8, after the first 4 revisions of the list and before the last 4,
\* each group in the order of the list, and shows no other revision.
C17_LongListElided ==
  LET edits == listing.edits
      s == listing.s
      n == Len(edits)
      placeholders == {i \in DOMAIN s :
                         s[i][1] = "revisions omitted for brevity"}
  IN listing.pc = "described" /\ n > 13
     => /\ placeholders = {5}
        /\ s[5][2] = n - 8
        /\ Len(s) = 9
        /\ \A k \in 1..4 :
             /\ s[k][2] = edits[k].rev /\ s[k][4] = edits[k].author
             /\ s[5 + k][2] = edits[n - 4 + k].rev
             /\ s[5 + k][4] = edits[n - 4 + k].author

\* A list of 14 revisions was described with 6 of them left out.
C17_FourteenRevisions ==
  /\ listing.pc = "described"
  /\ Len(listing.edits) = 14
  /\ listing.s[5] = <<"revisions omitted for brevity", 6>>
  /\ listing.s[4][2] = listing.edits[4].rev
  /\ listing.s[6][2] = listing.edits[11].rev

\* The lines append_moved_to_chain_description is to add for MOVE.
ChainLines(all, move) ==
  LET chain == NextChain(all, move, Len(all) + 1)
  IN [k \in 1..Len(chain) |->
        <<"And then moved away to", all[chain[k]].moved_to_repos_relpath,
          all[chain[k]].rev_author, all[chain[k]].rev>>]

\* C18: append_moved_to_chain_description returns the description it was
\* given when the move is NULL and otherwise that description followed by
\* one line for each move reachable through next from the move, in that
\* order; and once called on a chain the scanner built it returns.
C18_ChainDescribedAndReturns ==
  /\ [](scan.pc = "described" =>
          scan.description =
            <<"Item was moved away">>
            \o (IF scan.described = 0 THEN << >>
                ELSE ChainLines(scan.b.moves, scan.described)))
  /\ (scan.pc = "describing" ~> scan.pc = "described")

\* The chain of a node moved three times was described from its first move.
C18_ThreeMovesDescribed ==
  /\ scan.pc = "described"
  /\ scan.described # 0
  /\ Len(scan.description) = 4
  /\ scan.description[2][4] < scan.description[3][4]
  /\ scan.description[3][4] < scan.description[4][4]

\* C19: find_revision_for_suspected_deletion returns no error in place of
\* the SVN_ERR_CANCELLED its receiver raised to stop the log once the
\* deleting revision was found, and returns every other error of the log
\* walk as it got it: a cancellation or failure of the repository session,
\* of the ancestry check or of the common-ancestor lookup.
C19_OnlySentinelSilenced ==
  scan.pc \in {"returned", "describing", "described"}
  => /\ scan.by = "find_deleted_rev" => scan.result.err = SVN_NO_ERROR
     /\ scan.by # "find_deleted_rev" => scan.result.err = scan.err

\* The calls of a run of merge_incoming_added_file_text_merge in which
\* nothing fails.
TextMergeSteps ==
  <<"get_tmpdir", "open_ra_session", "ra_get_file", "stream_close",
    "prop_diffs", "acquire_write_lock_for_resolve", "del_tree_conflict",
    "merge5", "release_write_lock", "notify", "notify">>

\* The step just taken ran merge_incoming_added_file_text_merge.
TextMergeRan ==
  /\ last'.call = "svn_client_conflict_tree_resolve_by_id"
  /\ last'.ran
  /\ last'.option.do_resolve_func
       = "resolve_merge_incoming_added_file_text_merge"

\* What the run just taken did where it got that far: the fetch before
\* the lock, the merge of the incoming file and of its properties as
\* additions into the local file once the tree conflict is cleared, and
\* update_update before resolved_tree.
TextMergeAsDescribed ==
  LET ev == last'.ev IN
  /\ \A i \in DOMAIN ev :
       /\ ev[i][1] \in {"get_tmpdir", "open_ra_session", "ra_get_file",
                        "stream_close", "prop_diffs"} =>
            i \in OutsideLock(ev, "local")
       /\ ev[i][1] = "merge5" =>
            /\ ev[i][2] = IncomingContent
            /\ i \notin OutsideLock(ev, "local")
            /\ \E j \in Calls(ev, "del_tree_conflict") : j < i /\ ev[j][3]
            /\ ev[i][3] =>
                 /\ ~wc'.tree_conflict
                 /\ wc'.content = Mrg(IncomingContent, wc.content)
                 /\ wc'.props = wc.props \cup IncomingProps
       /\ ev[i] = <<"notify", "resolved_tree", TRUE>> =>
            i > 1 /\ ev[i - 1] = <<"notify", "update_update", TRUE>>
  /\ last'.err = SVN_NO_ERROR =>
       /\ Len(ev) = Len(TextMergeSteps)
       /\ ev[Len(ev)] = <<"notify", "resolved_tree", TRUE>>
       /\ "local" \notin wc'.locks

\* C20 as stated: merge_incoming_added_file_text_merge makes its calls in
\* the order fetch (before any lock), acquire, clear the tree conflict,
\* merge, release, update_update, resolved_tree, each only if the call
\* before it succeeded.
C20_EachStepAfterSuccess ==
  [][TextMergeRan =>
       /\ TextMergeAsDescribed
       /\ Len(last'.ev) <= Len(TextMergeSteps)
       /\ \A i \in DOMAIN last'.ev :
            /\ last'.ev[i][1] = TextMergeSteps[i]
            /\ i < Len(last'.ev) => last'.ev[i][3]]_vars

\* C20: merge_incoming_added_file_text_merge makes its calls in the order
\* fetch (before any lock), acquire, clear the tree conflict, merge,
\* release, update_update, resolved_tree; a failed fetch, acquisition or
\* release is its last call, and a failed clearing or merge is followed by
\* the release of the lock and nothing else.  The merge is of the incoming
\* file and its properties, all as additions, into the local file, and
\* runs only after the tree conflict was cleared; resolved_tree follows
\* update_update.
C20_TextMergeStepOrder ==
  [][TextMergeRan =>
       LET ev == last'.ev
           failed == {i \in DOMAIN ev :
                        ~ev[i][3] /\ ev[i][1] # "release_write_lock"}
       IN /\ TextMergeAsDescribed
          /\ \A i \in DOMAIN ev :
               IF \E k \in failed : k < i
               THEN /\ ev[i][1] = "release_write_lock"
                    /\ i = Len(ev)
                    /\ ev[i - 1][1] \in {"del_tree_conflict", "merge5"}
               ELSE /\ i <= Len(TextMergeSteps)
                    /\ ev[i][1] = TextMergeSteps[i]
          /\ \A k \in failed :
               IF ev[k][1] \in {"del_tree_conflict", "merge5"}
               THEN Len(ev) = k + 1
               ELSE Len(ev) = k
          /\ \A j \in Releases(ev, "local") : ~ev[j][3] => j = Len(ev)]_vars

\* The merge of the incoming file failed and the lock was released.
C20_MergeFailedLockReleased ==
  /\ last.call = "svn_client_conflict_tree_resolve_by_id"
  /\ last.ran
  /\ last.option.do_resolve_func
       = "resolve_merge_incoming_added_file_text_merge"
  /\ Len(last.ev) = 9
  /\ last.ev[8] = <<"merge5", IncomingContent, FALSE>>
  /\ last.ev[9] = <<"release_write_lock", "local", TRUE>>
  /\ last.err = <<"merge5">>
  /\ ~wc.tree_conflict
  /\ "local" \notin wc.locks

\* The step just taken ran one of the two file replace resolvers.
FileReplaceRan ==
  /\ last'.call = "svn_client_conflict_tree_resolve_by_id"
  /\ last'.ran
  /\ last'.option.do_resolve_func
       \in {"resolve_merge_incoming_added_file_replace",
            "resolve_merge_incoming_added_file_replace_and_merge"}

\* The calls a file replace resolver makes under the lock when nothing
\* fails.
FileReplaceSteps(func) ==
  <<"delete4", "add_repos_file4", "notify", "del_tree_conflict">>
  \o (IF func = "resolve_merge_incoming_added_file_replace_and_merge"
      THEN <<"open_unique_file3", "prop_diffs", "merge5", "notify">>
      ELSE << >>)

\* The run just taken made its working-copy calls under the resolve lock
\* in the order delete, add the incoming file, clear the tree conflict and
\* (replace-and-merge) merge the staged working file into it; a failed
\* call was followed by the release of the lock only, and a run that
\* returned an error recorded no resolution and notified no resolved_tree.
FileReplaceAsDescribed ==
  LET ev == last'.ev
      func == last'.option.do_resolve_func
      steps == FileReplaceSteps(func)
  IN \A a \in Calls(ev, "acquire_write_lock_for_resolve") :
       ev[a][3] =>
         LET rel == CHOOSE j \in Releases(ev, "local") : TRUE
             under == SubSeq(ev, a + 1, rel - 1)
         IN /\ Cardinality(Releases(ev, "local")) = 1
            /\ a < rel
            /\ Len(under) <= Len(steps)
            /\ \A i \in DOMAIN under :
                 /\ under[i][1] = steps[i]
                 /\ i < Len(under) => under[i][3]
                 /\ under[i][1] = "merge5" => under[i][2] = wc.content
            /\ (\A i \in DOMAIN under : under[i][3]) =>
                 Len(under) = Len(steps)
            /\ wc'.status = "replaced" =>
                 wc'.disk_kind = "file" /\ IncomingProps \subseteq wc'.props
            /\ last'.err # SVN_NO_ERROR =>
                 /\ conflict'.resolution_tree = conflict.resolution_tree
                 /\ Calls(ev, "notify") \cap
                      {i \in DOMAIN ev : ev[i][2] = "resolved_tree"} = {}

\* C21: the file replace resolvers run delete, add of the incoming file,
\* clearing of the tree conflict and (replace-and-merge) the merge under
\* the resolve lock in that order; a failing step skips the later ones,
\* the lock is released, the error returned, no resolution recorded and no
\* resolved_tree notified; and when the add fails after the delete
\* succeeded the tree-conflict record is still there.
C21_FailedAddKeepsConflict ==
  [][FileReplaceRan =>
       /\ FileReplaceAsDescribed
       /\ \A i \in Calls(last'.ev, "add_repos_file4") :
            (~last'.ev[i][3] /\ wc.tree_conflict) => wc'.tree_conflict]_vars

\* What of C21 the resolvers do: everything but keeping the record.
C21_FileReplaceStepOrder == [][FileReplaceRan => FileReplaceAsDescribed]_vars


\* The last call ran one of the two directory replace resolvers.
DirReplaceRan ==
  /\ last.call = "svn_client_conflict_tree_resolve_by_id"
  /\ last.ran
  /\ last.option.do_resolve_func
       \in {"resolve_merge_incoming_added_dir_replace",
            "resolve_merge_incoming_added_dir_replace_and_merge"}

\* The calls a directory replace resolver makes between taking and
\* releasing the resolve lock when nothing fails.
DirReplaceSteps(func) ==
  <<"delete4", "copy3", "acquire_write_lock",
    "remove_from_revision_control2", "file_rename2", "notify",
    "del_tree_conflict">>
  \o (IF func = "resolve_merge_incoming_added_dir_replace_and_merge"
      THEN <<"node_get_base", "ra_reparent", "ra_get_location_segments",
             "merge_locked">>
      ELSE << >>)

\* C22: the directory replace resolvers check the incoming directory out
\* to a temporary path before they take any lock, take the resolve lock on
\* the parent directory of the victim, and under it delete the victim,
\* copy the checkout over it, lock the checkout, remove it from revision
\* control, rename it to the victim and clear the tree conflict, each call
\* made only if every call before it succeeded; whichever call fails, the
\* lock on the parent is released once and the error is returned.
C22_DirReplaceStepOrder ==
  DirReplaceRan =>
    LET ev == last.ev
        steps == DirReplaceSteps(last.option.do_resolve_func)
        locks == {i \in DOMAIN ev :
                    ev[i][1] \in {"acquire_write_lock_for_resolve",
                                  "acquire_write_lock"}}
    IN /\ \A i \in Calls(ev, "checkout_internal") :
            /\ ev[i][2] = "tmp"
            /\ \A a \in locks : i < a /\ ev[i][3]
       /\ locks # {} => Calls(ev, "checkout_internal") # {}
       /\ \A i \in DOMAIN ev : ~ev[i][3] => last.err # SVN_NO_ERROR
       /\ \A a \in Calls(ev, "acquire_write_lock_for_resolve") :
            /\ ev[a][2] = "parent"
            /\ \A i \in 1..(a - 1) : ev[i][3]
            /\ ~ev[a][3] => a = Len(ev) /\ Releases(ev, "parent") = {}
            /\ ev[a][3] =>
                 LET rel == CHOOSE j \in Releases(ev, "parent") : TRUE
                     under == SubSeq(ev, a + 1, rel - 1)
                 IN /\ Cardinality(Releases(ev, "parent")) = 1
                    /\ a < rel
                    /\ Len(under) <= Len(steps)
                    /\ \A i \in DOMAIN under :
                         /\ under[i][1] = steps[i]
                         /\ i < Len(under) => under[i][3]
                         /\ under[i][1] = "acquire_write_lock" =>
                              under[i][2] = "tmp"
                         /\ under[i][1] \in {"delete4", "copy3",
                                             "file_rename2",
                                             "del_tree_conflict"} =>
                              under[i][2] = "local"
                         /\ ~under[i][3] =>
                              /\ rel = a + i + 1
                              /\ last.err[1] = under[i][1]
                    /\ (/\ \A i \in DOMAIN under : under[i][3]
                        /\ Len(under) < Len(steps)) =>
                         /\ Len(under) = 10
                         /\ last.err[1] = "WC_CONFLICT_RESOLVER_FAILURE"

\* A directory replace resolver failed to rename the checkout to the
\* victim: the victim was deleted and replaced in the metadata under the
\* lock on its parent, and that lock was released.
C22_RenameFailedParentReleased ==
  /\ DirReplaceRan
  /\ Len(last.ev) = 10
  /\ last.ev[3] = <<"checkout_internal", "tmp", TRUE>>
  /\ last.ev[4] = <<"acquire_write_lock_for_resolve", "parent", TRUE>>
  /\ last.ev[9] = <<"file_rename2", "local", FALSE>>
  /\ last.ev[10] = <<"release_write_lock", "parent", TRUE>>
  /\ last.err = <<"file_rename2">>
  /\ "parent" \notin wc.locks
  /\ wc.tree_conflict = FALSE


\* The step just taken ran resolve_merge_incoming_added_dir_merge.
DirMergeRan ==
  /\ last'.call = "svn_client_conflict_tree_resolve_by_id"
  /\ last'.ran
  /\ last'.option.do_resolve_func = "resolve_merge_incoming_added_dir_merge"

\* The details of the conflict do not tell the revision the merge of the
\* incoming directory starts at: there are none, or the merge went forward
\* and they have no added_rev, or it went backwards and they have no
\* deleted_rev.
DirMergeRevisionUnknown ==
  LET details == conflict.tree_conflict_incoming_details IN
  \/ ~details.present
  \/ desc.old_rev < desc.new_rev /\ details.added_rev = SVN_INVALID_REVNUM
  \/ ~(desc.old_rev < desc.new_rev)
       /\ details.deleted_rev = SVN_INVALID_REVNUM

\* C23: resolve_merge_incoming_added_dir_merge returns
\* WC_CONFLICT_RESOLVER_FAILURE without a call to the working copy (no
\* lock, no change) when the details are absent, when the merge went
\* forward and added_rev is invalid, or when it went backwards and
\* deleted_rev is invalid.  Otherwise it takes the lock and clears the tree
\* conflict, and the merge it then runs is from details.repos_relpath at
\* added_rev to the incoming new location at new_rev (forward), or from
\* details.repos_relpath at deleted_rev to the incoming old location at
\* old_rev (backwards).
C23_DirMergeNeedsRevision ==
  [][DirMergeRan =>
       LET details == conflict.tree_conflict_incoming_details
           ev == last'.ev
       IN IF DirMergeRevisionUnknown
          THEN /\ last'.err = <<"WC_CONFLICT_RESOLVER_FAILURE">>
               /\ ev = << >>
               /\ wc' = wc
               /\ conflict' = conflict
          ELSE /\ ev # << >>
               /\ ev[1][1] = "acquire_write_lock_for_resolve"
               /\ ev[1][3] =>
                    /\ Len(ev) >= 2
                    /\ ev[2][1] = "del_tree_conflict"
                    /\ ev[2][3] =>
                         /\ Len(ev) >= 3
                         /\ ev[3][1] = "merge_locked"
               /\ \A i \in Calls(ev, "merge_locked") :
                    /\ i = 3
                    /\ ev[2] = <<"del_tree_conflict", "local", TRUE>>
                    /\ ev[i][2] =
                         IF desc.old_rev < desc.new_rev
                         THEN <<details.repos_relpath, details.added_rev,
                                desc.new_relpath, desc.new_rev>>
                         ELSE <<details.repos_relpath, details.deleted_rev,
                                desc.old_relpath, desc.old_rev>>
                    /\ ev[i][3] => ~wc'.tree_conflict]_vars

\* A reverse merge's incoming added directory was merged from the
\* revision that deleted it to the incoming old location.
C23_ReverseMergedFromDeletedRev ==
  /\ last.call = "svn_client_conflict_tree_resolve_by_id"
  /\ last.ran
  /\ last.option.do_resolve_func = "resolve_merge_incoming_added_dir_merge"
  /\ desc.old_rev > desc.new_rev
  /\ conflict.tree_conflict_incoming_details.deleted_rev
       # SVN_INVALID_REVNUM
  /\ Len(last.ev) = 5
  /\ last.ev[3] =
       <<"merge_locked",
         <<conflict.tree_conflict_incoming_details.repos_relpath,
           conflict.tree_conflict_incoming_details.deleted_rev,
           desc.old_relpath, desc.old_rev>>, TRUE>>
  /\ last.err = SVN_NO_ERROR

\* The merge of an incoming added directory was asked for before the
\* details of the conflict were fetched, and refused without a call.
C23_RefusedWithoutDetails ==
  /\ last.call = "svn_client_conflict_tree_resolve_by_id"
  /\ last.ran
  /\ last.option.do_resolve_func = "resolve_merge_incoming_added_dir_merge"
  /\ ~conflict.tree_conflict_incoming_details.present
  /\ last.err = <<"WC_CONFLICT_RESOLVER_FAILURE">>
  /\ last.ev = << >>
  /\ wc.tree_conflict
  /\ wc.locks = {}


\* The last call ran resolve_merge_incoming_added_dir_replace_and_merge
\* and its walk of the replaced directory's location segments succeeded.
ReplacedDirWalked ==
  /\ last.call = "svn_client_conflict_tree_resolve_by_id"
  /\ last.ran
  /\ last.option.do_resolve_func
       = "resolve_merge_incoming_added_dir_replace_and_merge"
  /\ \E g \in Calls(last.ev, "ra_get_location_segments") : last.ev[g][3]

\* The position of the walk in the calls of that run, the segments it was
\* delivered, and the base revision node_get_base reported before it.
WalkAt == CHOOSE g \in Calls(last.ev, "ra_get_location_segments") : TRUE

WalkSegments == last.ev[WalkAt][2]

WalkBaseRevision == last.ev[WalkAt - 2][2]

\* The segments of the walk that have a path beneath the parent directory
\* of the replaced directory.
WalkQualifying ==
  {i \in DOMAIN WalkSegments :
     /\ WalkSegments[i].path # "NULL"
     /\ svn_relpath_skip_ancestor(svn_relpath_dirname(base_repos_relpath),
                                  WalkSegments[i].path)}

\* The revision the replaced directory was added in beneath its parent:
\* the start of the oldest qualifying segment.
WalkAddedRev ==
  WalkSegments[CHOOSE i \in WalkQualifying :
                 \A j \in WalkQualifying : j <= i].range_start

\* The follow-up merge of the run started at LEFT@rev1 and ended at the
\* base revision, or the walk found no addition and the run failed with
\* WC_CONFLICT_RESOLVER_FAILURE without merging.
FollowUpMergeFrom(rev1) ==
  IF WalkQualifying = {}
  THEN /\ last.err # SVN_NO_ERROR
       /\ last.err[1] = "WC_CONFLICT_RESOLVER_FAILURE"
       /\ Calls(last.ev, "merge_locked") = {}
  ELSE /\ Len(last.ev) > WalkAt
       /\ last.ev[WalkAt + 1][1] = "merge_locked"
       /\ last.ev[WalkAt + 1][2] = <<"url", rev1, "url", WalkBaseRevision>>

\* C24 as stated: the follow-up merge of replace-and-merge on a directory
\* runs from max(added_rev - 1, added_rev) to base_revision, added_rev
\* being the addition found by the walk of the location segments beneath
\* the parent; it fails with WC_CONFLICT_RESOLVER_FAILURE if none is found.
C24_MergeFromMaxOfAddedRev ==
  ReplacedDirWalked =>
    FollowUpMergeFrom(IF WalkAddedRev - 1 > WalkAddedRev
                      THEN WalkAddedRev - 1 ELSE WalkAddedRev)

\* C24: the follow-up merge of replace-and-merge on a directory runs to
\* base_revision from added_rev - 1 when the directory was added in its
\* base revision and from added_rev when it was added earlier, added_rev
\* (never above base_revision) being the addition found by the walk of
\* the location segments beneath the parent; it fails with
\* WC_CONFLICT_RESOLVER_FAILURE if none is found.
C24_MergeFromAddedRev ==
  ReplacedDirWalked =>
    /\ WalkQualifying # {} => WalkAddedRev <= WalkBaseRevision
    /\ FollowUpMergeFrom(IF WalkAddedRev = WalkBaseRevision
                         THEN WalkAddedRev - 1 ELSE WalkAddedRev)

\* The replaced directory was added in its base revision, where it had
\* been moved from outside its parent, and merged from the revision
\* before.
C24_AddedInBaseRevision ==
  /\ ReplacedDirWalked
  /\ Len(WalkSegments) = 2
  /\ WalkQualifying = {1}
  /\ WalkAddedRev = WalkBaseRevision
  /\ last.ev[WalkAt + 1]
       = <<"merge_locked",
           <<"url", WalkBaseRevision - 1, "url", WalkBaseRevision>>, TRUE>>
  /\ last.err = SVN_NO_ERROR


\* The moves of the revision scanned, as (from, to, rev, author,
\* copyfrom_rev), that the receiver recorded in the table.
MovesRecorded ==
  LET rev == scan.log[1].revision
      list == scan.b.moves_table[rev]
  IN {<<scan.b.moves[list[k]].moved_from_repos_relpath,
        scan.b.moves[list[k]].moved_to_repos_relpath,
        scan.b.moves[list[k]].rev,
        scan.b.moves[list[k]].rev_author,
        scan.b.moves[list[k]].copyfrom_rev>> : k \in DOMAIN list}

\* The moves of the revision scanned by the rule: a path deleted or
\* replaced, an added path copied from it, and the deleted path traced
\* back from the revision before to the copy's revision is at the copy's
\* source path.
MovesByRule ==
  LET entry == scan.log[1]
      items == {entry.changes[i] : i \in DOMAIN entry.changes}
  IN {<<d.path, c.path, entry.revision, entry.author, c.copyfrom_rev>> :
        <<d, c>> \in
          {dc \in items \X items :
             /\ dc[1].action \in {"D", "R"}
             /\ dc[2].action = "A"
             /\ dc[2].copyfrom_path = dc[1].path
             /\ scan.locations[<<dc[1].path, dc[2].copyfrom_rev>>]
                  = dc[2].copyfrom_path}}

\* C25: the moves recorded for one scanned revision are exactly those of
\* the rule (deleted or replaced path d, added path c copied from d, and
\* get_locations of d from rev - 1 at c's copyfrom revision reporting c's
\* copyfrom path), each with from d, to c, the revision, its author and
\* c's copyfrom revision; copies of one source are tested one by one and
\* each verified one has a move of its own.
C25_MovesOfOneRevision ==
  scan.pc = "scanned" =>
    LET rev == scan.log[1].revision IN
    /\ MovesRecorded = MovesByRule
    /\ Len(scan.b.moves_table[rev]) = Cardinality(MovesByRule)
    /\ Len(scan.b.moves) = Cardinality(MovesByRule)
    /\ \A r \in DOMAIN scan.b.moves_table :
         r # rev => scan.b.moves_table[r] = << >>

\* Of two copies of the deleted path in one revision, the one from the
\* revision before was verified and recorded as a move and the one from
\* an older revision, where the path held another node, was not.
C25_OneOfTwoCopiesVerified ==
  /\ scan.pc = "scanned"
  /\ Len(scan.log[1].changes) = 3
  /\ Cardinality({i \in DOMAIN scan.log[1].changes :
                    scan.log[1].changes[i].copyfrom_path = "a"}) = 2
  /\ MovesRecorded = {<<"a", "b", scan.log[1].revision, "author",
                        scan.log[1].revision - 1>>}


\* C26 as stated: every walk of the log is driven with start_rev >=
\* end_rev and so delivers its revisions newest first, and the assertion
\* move.rev < next_move.rev on the move found in moved_paths never fails.
C26_WalksNewestFirst ==
  scan.pc \in {"log", "returned"} =>
    /\ scan.start_rev >= scan.end_rev
    /\ \A i, j \in DOMAIN scan.log :
         i < j => scan.log[i].revision > scan.log[j].revision
    /\ scan.by # "assertion"

\* What of C26 holds: a walk that is driven newest first never fails the
\* assertion.
C26_NewestFirstNeverFails ==
  scan.start_rev >= scan.end_rev => scan.by # "assertion"

\* A walk driven oldest first, as after an update forward, failed the
\* assertion on a move of a later revision to the path an earlier
\* revision had moved away.
C26_AssertionFailedWalkingForward ==
  /\ scan.pc = "returned"
  /\ scan.start_rev < scan.end_rev
  /\ scan.by = "assertion"
  /\ scan.result.err = <<"ASSERTION_FAIL">>
  /\ Len(scan.b.moves) = 1


\* C28: when the walk found the deleting revision and no move in the list
\* of that revision moved the deleted path away (there is no list, or it
\* has moves of other paths only), find_revision_for_suspected_deletion
\* returns no move; and when the walk found no deleting revision it
\* returns an invalid deleted_rev and no move.
C28_NoMoveUnlessOfDeletedPath ==
  (scan.pc = "returned" /\ scan.result.set) =>
    IF scan.b.deleted_rev = SVN_INVALID_REVNUM
    THEN /\ scan.result.deleted_rev = SVN_INVALID_REVNUM
         /\ scan.result.move = 0
    ELSE first_move_from(scan.b.moves,
                         scan.b.moves_table[scan.b.deleted_rev],
                         scan.b.deleted_repos_relpath) = 0
           => scan.result.move = 0

\* What of C28 holds: no move is returned when no deleting revision was
\* found or the deleting revision has no list of moves.
C28_NoMoveWithoutList ==
  (scan.pc = "returned" /\ scan.result.set) =>
    /\ scan.b.deleted_rev = SVN_INVALID_REVNUM =>
         /\ scan.result.deleted_rev = SVN_INVALID_REVNUM
         /\ scan.result.move = 0
    /\ (/\ scan.b.deleted_rev # SVN_INVALID_REVNUM
        /\ scan.b.moves_table[scan.b.deleted_rev] = << >>) =>
         scan.result.move = 0

\* The deleting revision replaced the node and moved another one; the
\* move of the other node was returned as the move of the deleted node.
C28_MoveOfOtherPathReturned ==
  /\ scan.pc = "returned"
  /\ scan.result.set
  /\ scan.result.move # 0
  /\ scan.b.moves[scan.result.move].moved_from_repos_relpath
       # scan.b.deleted_repos_relpath


\* The receiver has confirmed the deleting revision and aborted the walk
\* with its sentinel.
WalkAborted == scan.pc = "log" /\ scan.by = "find_deleted_rev"

\* C27: the call of the receiver that confirms the deleting revision r
\* records r, its author and the kind of the replacing node (none when
\* the node was deleted, not replaced) and returns the sentinel only after
\* the moves of r were put into the table; no entry of the log is
\* processed after it; and the wrapper then returns without error r and,
\* when the list of r has moves of the deleted path, the first of them,
\* as the walk left it.
C27_ConfirmedRevisionEndsWalk ==
  [][/\ (scan.pc = "log" /\ scan.by = "none" /\ WalkAborted') =>
          LET entry == Head(scan.log)
              r == entry.revision
              hits == {i \in DOMAIN entry.changes :
                         /\ entry.changes[i].path
                              = scan.b.deleted_repos_relpath
                         /\ entry.changes[i].action \in {"D", "R"}}
              added == Len(scan'.b.moves) - Len(scan.b.moves)
          IN /\ hits # {}
             /\ scan'.err = <<"CANCELLED">>
             /\ scan'.b.deleted_rev = r
             /\ scan'.b.deleted_rev_author = entry.author
             /\ \A i \in hits :
                  scan'.b.replacing_node_kind
                    = IF entry.changes[i].action = "R"
                      THEN entry.changes[i].node_kind ELSE "none"
             /\ added >= 0
             /\ scan'.b.moves_table[r]
                  = scan.b.moves_table[r]
                    \o [k \in 1..added |-> Len(scan.b.moves) + k]
             /\ \A k \in 1..added :
                  /\ scan'.b.moves[Len(scan.b.moves) + k].rev = r
                  /\ \E c \in DOMAIN entry.changes :
                       /\ entry.changes[c].action = "A"
                       /\ entry.changes[c].path
                            = scan'.b.moves[Len(scan.b.moves) + k]
                                .moved_to_repos_relpath
                       /\ entry.changes[c].copyfrom_path
                            = scan'.b.moves[Len(scan.b.moves) + k]
                                .moved_from_repos_relpath
             /\ scan'.log = Tail(scan.log)
     /\ WalkAborted =>
          /\ scan'.b = scan.b
          /\ scan'.log = scan.log
          /\ scan'.pc = "returned"
          /\ scan'.result.err = SVN_NO_ERROR
          /\ scan'.result.deleted_rev = scan.b.deleted_rev
          /\ LET list == scan.b.moves_table[scan.b.deleted_rev]
                 hits == {k \in DOMAIN list :
                            scan.b.moves[list[k]].moved_from_repos_relpath
                              = scan.b.deleted_repos_relpath}
             IN \A k \in hits :
                  (\A j \in hits : k <= j) =>
                    scan'.result.move = list[k]]_vars

\* The walk was aborted at the revision that moved the node away, and the
\* move returned is chained to the move a younger revision made of it.
C27_ChainedMoveReturned ==
  /\ scan.pc = "returned"
  /\ scan.by = "find_deleted_rev"
  /\ scan.log # << >>
  /\ scan.result.deleted_rev = scan.b.deleted_rev
  /\ scan.b.replacing_node_kind = "none"
  /\ scan.result.move # 0
  /\ scan.b.moves[scan.result.move].moved_from_repos_relpath
       = scan.b.deleted_repos_relpath
  /\ scan.b.moves[scan.result.move].rev = scan.b.deleted_rev
  /\ scan.b.moves[scan.result.move].next # 0


\* The segments delivered so far that are of interest to the addition
\* locator: not a gap and, when the baton names a parent, beneath it.
SegmentsOfInterest ==
  {i \in DOMAIN scan.delivered :
     /\ scan.delivered[i].path # "NULL"
     /\ \/ scan.b.parent_repos_relpath = "NULL"
        \/ svn_relpath_skip_ancestor(scan.b.parent_repos_relpath,
                                     scan.delivered[i].path)}

\* The baton holds the start and the path of the I-th segment delivered.
TakenFrom(i) ==
  /\ scan.b.added_rev = scan.delivered[i].range_start
  /\ scan.b.repos_relpath = scan.delivered[i].path

\* C29 as stated: added_rev and repos_relpath are those of the first
\* segment delivered that is not a gap and lies beneath the parent when
\* one is set, whatever is delivered after it; added_rev stays invalid
\* while no such segment was delivered.
C29_FirstSegmentOfInterest ==
  scan.pc = "segments" =>
    IF SegmentsOfInterest = {}
    THEN scan.b.added_rev = SVN_INVALID_REVNUM
    ELSE \A i \in SegmentsOfInterest :
           (\A j \in SegmentsOfInterest : i <= j) => TakenFrom(i)

\* C29: added_rev and repos_relpath are those of the last segment
\* delivered so far that is not a gap and lies beneath the parent when one
\* is set: each such segment overwrites what the one before it gave;
\* added_rev stays invalid while no such segment was delivered.
C29_LastSegmentOfInterest ==
  scan.pc = "segments" =>
    IF SegmentsOfInterest = {}
    THEN /\ scan.b.added_rev = SVN_INVALID_REVNUM
         /\ scan.b.repos_relpath = "NULL"
    ELSE \A i \in SegmentsOfInterest :
           (\A j \in SegmentsOfInterest : i >= j) => TakenFrom(i)

\* With the parent A set, the node was delivered at two paths beneath A
\* and at one elsewhere in between, and the baton holds the older of the
\* two.
C29_OlderSegmentBeneathParent ==
  /\ scan.pc = "segments"
  /\ scan.b.parent_repos_relpath = "A"
  /\ Len(scan.delivered) = 3
  /\ SegmentsOfInterest = {1, 3}
  /\ TakenFrom(3)
  /\ ~TakenFrom(1)


\* The receiver of the edit locator has pushed a record.
EditRecorded ==
  /\ scan.pc = "edited"
  /\ scan.b.edits # << >>

\* Some path changed in the log entry is a proper descendant of the
\* relpath the baton tracked when the entry was delivered.
DescendantChanged ==
  \E path \in DOMAIN scan.log_entry.changed_paths2 :
    /\ svn_relpath_canonicalize(path) # scan.tracked
    /\ svn_relpath_skip_ancestor(scan.tracked,
                                 svn_relpath_canonicalize(path))

\* C30: in a record of the edit locator for a directory, children_modified
\* is true if some changed path of the revision is a proper descendant of
\* the tracked relpath and false if none is; for a node that is not a
\* directory it stays unknown.
C30_ChildrenModifiedIffDescendantChanged ==
  EditRecorded =>
    scan.b.edits[1].children_modified =
      IF scan.b.node_kind # "dir" THEN "unknown"
      ELSE IF DescendantChanged THEN "true" ELSE "false"

\* The part of C30 on the kind of the node: children_modified is unknown
\* in the records of a node that is not a directory, and true or false in
\* those of a directory.
C30_UnknownUnlessDirectory ==
  EditRecorded =>
    (scan.b.edits[1].children_modified = "unknown"
       <=> scan.b.node_kind # "dir")

\* The revision replaced the tracked directory and changed no other path,
\* and its record says that children were modified.
C30_ReplacedDirChildrenModified ==
  /\ EditRecorded
  /\ scan.b.node_kind = "dir"
  /\ DOMAIN scan.log_entry.changed_paths2 = {"/A"}
  /\ scan.tracked = "A"
  /\ scan.log_entry.changed_paths2["/A"].action = "R"
  /\ scan.b.edits[1].children_modified = "true"

\* The revision added the tracked directory as a copy and modified a child
\* of it, and its record says that no children were modified.
C30_ChildOfCopiedDirMissed ==
  /\ EditRecorded
  /\ scan.b.node_kind = "dir"
  /\ scan.tracked = "A"
  /\ DOMAIN scan.log_entry.changed_paths2 = {"/A", "/A/p"}
  /\ scan.log_entry.changed_paths2["/A/p"].action = "M"
  /\ scan.b.edits[1].children_modified = "false"


\* The walk of the log has shown the receiver an entry, which made it
\* append a record.
RecordAppended ==
  /\ scan.pc = "log"
  /\ scan.revision > 0
  /\ Len(scan.b.edits) > scan.before

\* The entry shown last has a changed path equal to the relpath tracked
\* when it was shown with action M or A or, the node being a directory, a
\* changed path beneath that relpath.
PopulatedByEntry ==
  \E path \in DOMAIN scan.log_entry.changed_paths2 :
    \/ /\ svn_relpath_canonicalize(path) = scan.tracked
       /\ scan.log_entry.changed_paths2[path].action \in {"M", "A"}
    \/ /\ scan.b.node_kind = "dir"
       /\ svn_relpath_canonicalize(path) # scan.tracked
       /\ svn_relpath_skip_ancestor(scan.tracked,
                                    svn_relpath_canonicalize(path))

\* The records of the list are in ascending order of revision, one record
\* a revision at most.
EditsAscend ==
  \A i, j \in DOMAIN scan.b.edits :
    i < j => scan.b.edits[i].rev < scan.b.edits[j].rev

\* C31: the edit locator appends a record for a log entry only if the
\* entry populated it (a changed path equal to the tracked relpath with
\* action M or A or, for a directory, a changed descendant), and the list
\* is in ascending order of revision with one record a revision at most.
C31_OnlyPopulatedRecordsAscending ==
  scan.pc \in {"log", "aborted"} =>
    /\ RecordAppended => PopulatedByEntry
    /\ EditsAscend

\* The part of C31 on the order of the list: revisions ascend strictly.
C31_RecordsAscend == scan.pc \in {"log", "aborted"} => EditsAscend

\* The revision changed only a path that is neither the tracked file nor
\* beneath it, and a record with nothing known was appended for it.
C31_UnpopulatedRecordAppended ==
  /\ RecordAppended
  /\ scan.b.node_kind = "file"
  /\ scan.tracked = "A"
  /\ DOMAIN scan.log_entry.changed_paths2 = {"/B"}
  /\ LET details == scan.b.edits[Len(scan.b.edits)]
     IN /\ details.rev = scan.revision
        /\ details.text_modified = "unknown"
        /\ details.props_modified = "unknown"
        /\ details.children_modified = "unknown"
        /\ details.repos_relpath = "NULL"


\* The lines of the description that are the placeholder for omitted
\* revisions.
Placeholders ==
  {i \in DOMAIN listing.s : listing.s[i][1] = "revisions omitted for brevity"}

\* The description lists every revision of the list, in the order of the
\* list, and nothing else.
ListedInFull ==
  /\ Len(listing.s) = Len(listing.edits)
  /\ \A i \in DOMAIN listing.edits :
       /\ listing.s[i][1] = "r"
       /\ listing.s[i][2] = listing.edits[i].rev
       /\ listing.s[i][4] = listing.edits[i].author

\* C32 as stated: the description of a list of at most 13 revisions has no
\* placeholder and lists every revision, and only a list of more than 13
\* has the placeholder.
C32_FullUpToThirteen ==
  listing.pc = "described" =>
    /\ Len(listing.edits) <= 13 => Placeholders = {} /\ ListedInFull
    /\ Placeholders # {} => Len(listing.edits) > 13

\* C32: the description of a list of at most 12 revisions (fewer than
\* 8 + 5) has no placeholder and lists every revision; a list of 13
\* revisions or more has the placeholder.
C32_FullUpToTwelve ==
  listing.pc = "described" =>
    /\ Len(listing.edits) <= 12 => Placeholders = {} /\ ListedInFull
    /\ Placeholders # {} <=> Len(listing.edits) >= 13

\* A list of 13 revisions was described with 5 of them left out.
C32_ThirteenRevisionsElided ==
  /\ listing.pc = "described"
  /\ Len(listing.edits) = 13
  /\ Placeholders = {5}
  /\ listing.s[5] = <<"revisions omitted for brevity", 5>>
  /\ Len(listing.s) = 9


\* The names svn_client_conflict_prop_get_resolution of C answers with an
\* option for: the keys of resolved_props.
ResolvedPropNames(c) ==
  {p \in PropNames :
     svn_client_conflict_prop_get_resolution(c, p) # "unspecified"}

\* The books of property conflicts of C are consistent: no name is both
\* conflicted and resolved, and legacy_prop_conflict_propname is NULL when
\* no property conflict is left and one of those left otherwise.
PropBooksConsistent(c) ==
  /\ c.prop_conflicts \cap ResolvedPropNames(c) = {}
  /\ c.legacy_prop_conflict_propname = "NULL" <=> c.prop_conflicts = {}
  /\ c.prop_conflicts # {} =>
       c.legacy_prop_conflict_propname \in c.prop_conflicts

\* The step is a run of resolve_prop_conflict.
PropResolverRan ==
  /\ last'.call = "svn_client_conflict_prop_resolve_by_id"
  /\ last'.ran
  /\ last'.option.do_resolve_func = "resolve_prop_conflict"

\* C33: a successful run of resolve_prop_conflict for all properties
\* (empty name) binds every key of prop_conflicts to the chosen option in
\* resolved_props and leaves prop_conflicts empty, and one for a single
\* name moves that name only; a failed run changes none of prop_conflicts,
\* resolved_props and legacy_prop_conflict_propname; no other call gives
\* a name a resolution and an object just opened has none, so that
\* prop_get_resolution is unspecified for a name not yet resolved; and the
\* books are consistent after every call.
C33_PropBooksKept ==
     [][/\ PropBooksConsistent(conflict')
        /\ last' = NoCall => ResolvedPropNames(conflict') = {}
        /\ (PropResolverRan /\ last'.err = SVN_NO_ERROR
              /\ last'.propname = "") =>
             /\ conflict'.prop_conflicts = {}
             /\ \A p \in PropNames :
                  svn_client_conflict_prop_get_resolution(conflict', p) =
                    IF p \in conflict.prop_conflicts THEN last'.option.id
                    ELSE svn_client_conflict_prop_get_resolution(conflict, p)
        /\ (PropResolverRan /\ last'.err = SVN_NO_ERROR
              /\ last'.propname # "") =>
             /\ conflict'.prop_conflicts =
                  conflict.prop_conflicts \ {last'.propname}
             /\ \A p \in PropNames :
                  svn_client_conflict_prop_get_resolution(conflict', p) =
                    IF p = last'.propname THEN last'.option.id
                    ELSE svn_client_conflict_prop_get_resolution(conflict, p)
        /\ (PropResolverRan /\ last'.err # SVN_NO_ERROR) =>
             /\ conflict'.prop_conflicts = conflict.prop_conflicts
             /\ conflict'.resolved_props = conflict.resolved_props
             /\ conflict'.legacy_prop_conflict_propname =
                  conflict.legacy_prop_conflict_propname
        /\ ~(PropResolverRan /\ last'.err = SVN_NO_ERROR) =>
             ResolvedPropNames(conflict') \subseteq ResolvedPropNames(conflict)
       ]_vars

\* One of two conflicted properties was resolved by name and then all
\* properties with another option: each name has the option it was
\* resolved with and no property conflict is left.
C33_OneNameThenAllResolved ==
  /\ last.call = "svn_client_conflict_prop_resolve_by_id"
  /\ last.err = SVN_NO_ERROR
  /\ last.propname = ""
  /\ last.option.id = "working_text"
  /\ wc.prop_conflicts = {}
  /\ conflict.prop_conflicts = {}
  /\ conflict.legacy_prop_conflict_propname = "NULL"
  /\ svn_client_conflict_prop_get_resolution(conflict, "p1") = "base_text"
  /\ svn_client_conflict_prop_get_resolution(conflict, "p2") = "working_text"


\* The step is a call on the conflict object at hand, not its replacement
\* by a newly opened one.
SameObject == last' # NoCall

\* The step leaves the incoming and the local details of the object as
\* they are.
DetailsKept ==
  /\ conflict'.tree_conflict_incoming_details
       = conflict.tree_conflict_incoming_details
  /\ conflict'.tree_conflict_local_details
       = conflict.tree_conflict_local_details

\* C34: once svn_client_conflict_tree_get_details has stored incoming or
\* local details on a conflict object, no later call on that object
\* replaces or modifies them.
C34_DetailsWrittenOnce ==
  [][(/\ SameObject
      /\ \/ conflict.tree_conflict_incoming_details.present
         \/ conflict.tree_conflict_local_details)
     => DetailsKept]_vars

\* The part of C34 on the other calls: listing the options and resolving
\* leave the details of the object as they are.
C34_OtherCallsKeepDetails ==
  [][(SameObject /\ last'.call # "svn_client_conflict_tree_get_details")
     => DetailsKept]_vars


\* The library calls that change the working copy at the victim.
VictimMutations ==
  {"delete4", "copy3", "add_repos_file4", "merge5", "merge_locked",
   "file_rename2", "del_tree_conflict",
   "conflict_tree_update_break_moved_away",
   "conflict_tree_update_raise_moved_away",
   "conflict_tree_update_moved_away_node",
   "conflict_text_mark_resolved", "conflict_prop_mark_resolved"}

\* The library calls that read the working copy, talk to the repository,
\* write temporary files or compute in memory.
UnlockedCalls ==
  {"open_ra_session", "ra_get_file", "get_tmpdir", "get_wcroot",
   "node_get_origin", "check_path", "stream_open_readonly", "stream_close",
   "prop_list2", "prop_diffs", "open_unique_file3", "checkout_internal"}

\* The call I of the last run was made with the resolve lock held: the
\* lock was acquired before it and not given back since.
UnderResolveLock(i) ==
  \E a \in 1..(i - 1) :
    /\ last.ev[a][1] = "acquire_write_lock_for_resolve"
    /\ last.ev[a][3]
    /\ \A k \in a..i : last.ev[k][1] # "release_write_lock"

\* C35: every call by which a resolver changes the working copy at the
\* victim is made after the resolver acquired the resolve lock and before
\* it releases it, and before the lock is held the resolver only reads the
\* working copy, talks to the repository and writes temporary files.
C35_MutationsUnderResolveLock ==
  last.ran =>
    \A i \in DOMAIN last.ev :
      /\ last.ev[i][1] \in VictimMutations =>
           /\ UnderResolveLock(i)
           /\ \E r \in (i + 1)..Len(last.ev) :
                last.ev[r][1] = "release_write_lock"
      /\ (last.ev[i][1] # "acquire_write_lock_for_resolve"
            /\ ~UnderResolveLock(i)
            /\ \A k \in 1..i : last.ev[k][1] # "release_write_lock") =>
           last.ev[i][1] \in UnlockedCalls

\* A directory was replaced and merged: the checkout to the temporary path
\* came before the resolve lock was taken, and the deletion, the copy and
\* the merge between taking it and giving it back.
C35_ReplacedAndMergedUnderLock ==
  /\ last.ran
  /\ last.err = SVN_NO_ERROR
  /\ last.option.do_resolve_func
       = "resolve_merge_incoming_added_dir_replace_and_merge"
  /\ \E co, a, d, m, r \in DOMAIN last.ev :
       /\ co < a /\ a < d /\ d < m /\ m < r
       /\ last.ev[co][1] = "checkout_internal"
       /\ last.ev[a][1] = "acquire_write_lock_for_resolve"
       /\ last.ev[d][1] = "delete4"
       /\ last.ev[m][1] = "merge_locked"
       /\ last.ev[r][1] = "release_write_lock"


\* C36: the prev and next links of the recorded moves agree: for all
\* recorded moves m and n, n is the next of m if and only if m is the prev
\* of n.
C36_LinksAgree ==
  \A m, n \in DOMAIN scan.b.moves :
    scan.b.moves[m].next = n <=> scan.b.moves[n].prev = m

\* The part of C36 that holds: the move a prev link points at has its next
\* link pointing back.
C36_PrevIsNextOfPrev ==
  \A m, n \in DOMAIN scan.b.moves :
    scan.b.moves[n].prev = m => scan.b.moves[m].next = n

\* Two moves to the same path, found in different revisions, both have the
\* younger move away from that path for their next, which points back at
\* the older of the two only.
C36_NextOfTwoMoves ==
  \E m1, m2, n \in DOMAIN scan.b.moves :
    /\ m1 # m2
    /\ scan.b.moves[m1].next = n
    /\ scan.b.moves[m2].next = n
    /\ scan.b.moves[m1].rev < scan.b.moves[m2].rev
    /\ scan.b.moves[m2].rev < scan.b.moves[n].rev
    /\ scan.b.moves[n].prev = m1


\* The last call ran a tree resolver that emitted a resolved_tree
\* notification.
ResolvedTreeNotified ==
  /\ TreeResolvedById
  /\ last.ran
  /\ <<"notify", "resolved_tree", TRUE>> \in SeqToSet(last.ev)

\* The tree resolvers that notify with the lock still held, before they
\* release it and look at the error.
NotifyingUnderLock ==
  {"resolve_accept_current_wc_state", "resolve_merge_incoming_add_ignore",
   "resolve_incoming_delete_ignore", "resolve_incoming_delete_accept"}

\* C37: a tree resolver emits a resolved_tree notification only on a run
\* in which the tree-conflict record was cleared and which returns
\* success; a run that returns an error emits none.
C37_NotifiedOnlyOnSuccess ==
  ResolvedTreeNotified =>
    /\ last.err = SVN_NO_ERROR
    /\ ~wc.tree_conflict

\* The part of C37 that holds: the resolvers that notify after giving the
\* lock back emit resolved_tree only on a run that cleared the record and
\* returns success.
C37_NotifiedAfterReleaseOnlyOnSuccess ==
  (ResolvedTreeNotified
     /\ last.option.do_resolve_func \notin NotifyingUnderLock) =>
    /\ last.err = SVN_NO_ERROR
    /\ ~wc.tree_conflict

\* svn_wc__del_tree_conflict failed in resolve_accept_current_wc_state:
\* the record is still there, the resolver returned the error, and
\* resolved_tree was notified all the same.
C37_NotifiedThoughNotCleared ==
  /\ ResolvedTreeNotified
  /\ last.option.do_resolve_func = "resolve_accept_current_wc_state"
  /\ last.err = <<"del_tree_conflict">>
  /\ wc.tree_conflict
  /\ svn_client_conflict_tree_get_resolution(conflict) = "unspecified"


\* The step is a successful run of a resolver other than postpone by the
\* entry point CALL.
ResolvedBy(call) ==
  /\ last'.call = call
  /\ last'.ran
  /\ last'.err = SVN_NO_ERROR
  /\ last'.option.do_resolve_func # "resolve_postpone"

\* C38: resolution_text and resolution_tree of a conflict object are
\* unspecified when it is opened and change only when a text resolver,
\* respectively a tree resolver, other than postpone returns success, to
\* the id of the option that resolver ran for; a run that returns an
\* error, be it only that of releasing the lock, leaves them unchanged.
C38_ResolutionRecordedOnSuccess ==
  [][/\ last' = NoCall =>
          /\ svn_client_conflict_text_get_resolution(conflict')
               = "unspecified"
          /\ svn_client_conflict_tree_get_resolution(conflict')
               = "unspecified"
     /\ IF ResolvedBy("svn_client_conflict_text_resolve_by_id")
        THEN svn_client_conflict_text_get_resolution(conflict')
               = last'.option.id
        ELSE last' # NoCall =>
               svn_client_conflict_text_get_resolution(conflict')
                 = svn_client_conflict_text_get_resolution(conflict)
     /\ IF ResolvedBy("svn_client_conflict_tree_resolve_by_id")
        THEN svn_client_conflict_tree_get_resolution(conflict')
               = last'.option.id
        ELSE last' # NoCall =>
               svn_client_conflict_tree_get_resolution(conflict')
                 = svn_client_conflict_tree_get_resolution(conflict)
    ]_vars

\* A text conflict was marked resolved but the lock could not be released:
\* the resolver returned that error and recorded no resolution.
C38_ReleaseFailedNothingRecorded ==
  /\ last.call = "svn_client_conflict_text_resolve_by_id"
  /\ last.ran
  /\ last.err = <<"release_write_lock">>
  /\ ~wc.text_conflict
  /\ svn_client_conflict_text_get_resolution(conflict) = "unspecified"


\* The paths on which the calls EV took a write lock.
LocksAcquired(ev) ==
  {ev[i][2] : i \in {j \in DOMAIN ev :
                       /\ ev[j][1] \in {"acquire_write_lock_for_resolve",
                                         "acquire_write_lock"}
                       /\ ev[j][3]}}

\* The paths whose write lock the calls EV tried to release in vain.
ReleaseFailed(ev) ==
  {ev[i][2] : i \in {j \in DOMAIN ev :
                       ev[j][1] = "release_write_lock" /\ ~ev[j][3]}}

\* C39: when a directory replace resolver has returned, with or without
\* an error, it holds none of the write locks it acquired: neither the
\* resolve lock on the parent directory nor the write lock on the temporary
\* checkout.  (A lock whose release was attempted and failed is not held
\* against the resolver.)
C39_NoAcquiredLockHeld ==
  DirReplaceRan =>
    \A path \in LocksAcquired(last.ev) \ ReleaseFailed(last.ev) :
      path \notin wc.locks

\* The part of C39 that holds: the resolve lock on the parent directory is
\* not held after the return unless its release failed, and the lock on the
\* checkout is gone once the checkout was removed from revision control.
C39_ParentLockNotHeld ==
  DirReplaceRan =>
    /\ ("parent" \in LocksAcquired(last.ev) \ ReleaseFailed(last.ev)) =>
          "parent" \notin wc.locks
    /\ <<"remove_from_revision_control2", "tmp", TRUE>> \in SeqToSet(last.ev)
          => "tmp" \notin wc.locks

\* A directory replace resolver locked the temporary checkout, failed to
\* remove it from revision control, released the lock on the parent and
\* returned the error: the lock on the checkout is still held.
C39_CheckoutLockLeftHeld ==
  /\ DirReplaceRan
  /\ <<"acquire_write_lock", "tmp", TRUE>> \in SeqToSet(last.ev)
  /\ <<"remove_from_revision_control2", "tmp", FALSE>> \in SeqToSet(last.ev)
  /\ <<"release_write_lock", "parent", TRUE>> \in SeqToSet(last.ev)
  /\ last.err = <<"remove_from_revision_control2">>
  /\ "parent" \notin wc.locks
  /\ "tmp" \in wc.locks

=============================================================================
